---------------------------- MODULE Spec2Model ----------------------------
(***************************************************************************)
(* A model of the Jack compiler of Nand2Tetris-rs: the symbol table, the   *)
(* class and subroutine code generators (Jack-compiler-rs/src/compiler)    *)
(* and the recursive-descent parser over itertools' MultiPeek              *)
(* (Jack-compiler-rs/src/parser.rs).                                       *)
(*                                                                         *)
(* Emitted instructions are modelled as the very strings the code pushes   *)
(* to its output vectors, indentation included.                            *)
(***************************************************************************)
EXTENDS Integers, Sequences, FiniteSets, TLC

VARIABLES
    class,                \* the Class AST handed to ClassCompiler::compile
    class_compiler,       \* the ClassCompiler struct
    subroutine_compiler,  \* the SubroutineCompiler of the last compiled subroutine
    pc,                   \* position of ClassCompiler::compile in its two loops
    parser,               \* the Parser struct: the MultiPeek token iterator
    nodes,                \* handle_file: the classes collected from the parser
    instructions,         \* handle_file: the instructions returned by Compiler::compile
    input,                \* which token sequence was handed to the parser
    expr,                 \* result of a direct call of Parser::parse_expression
    dir,                  \* main: the directory entries and how far the loop got
    compiler,             \* a Compiler struct: its classes and its retained output
    asm                   \* the assembler's main: tokens, nodes, symbol table, words

vars == <<class, class_compiler, subroutine_compiler, pc, parser, nodes,
          instructions, input, expr, dir, compiler, asm>>

\* main has not been started on a directory
NoDir == [entries |-> << >>, i |-> 0, written |-> {}, result |-> "idle"]

\* no Compiler has been constructed
NoCompiler == [nodes |-> << >>, output |-> << >>, calls |-> 0, res |-> "idle"]

\* the assembler has not been started
NoAsm == [stage |-> "idle"]

-----------------------------------------------------------------------------
(* Bounds of the model                                                     *)

\* the largest number of subroutine declarations of one class
MaxSubs == 2

-----------------------------------------------------------------------------
(* Formatting of integers, as Rust's `{}` on usize / u16 / u8              *)

Digit == <<"0", "1", "2", "3", "4", "5", "6", "7", "8", "9">>

RECURSIVE ToStr(_)
ToStr(n) == IF n < 10 THEN Digit[n + 1]
            ELSE ToStr(n \div 10) \o Digit[(n % 10) + 1]

Last(s) == s[Len(s)]

-----------------------------------------------------------------------------
(* parser.rs: Type                                                         *)

TypeInt       == [type |-> "Int", name |-> ""]
TypeChar      == [type |-> "Char", name |-> ""]
TypeBoolean   == [type |-> "Boolean", name |-> ""]
TypeClass(n)  == [type |-> "Class", name |-> n]

-----------------------------------------------------------------------------
(* compiler/symbol_table.rs: a table is a HashMap from an identifier to    *)
(* (type, index); it is modelled as a function on its key set.             *)

EmptyTable == << >>

\* HashMap::insert after `let index = table.len()`: an existing key is
\* replaced in place, so the length does not grow on a re-declaration.
table_insert(table, key, value) ==
    LET index == Cardinality(DOMAIN table)
    IN  [k \in (DOMAIN table) \cup {key} |->
            IF k = key THEN [type |-> value, index |-> index] ELSE table[k]]

table_has(table, key) == key \in DOMAIN table

new_class_symbol_table == [static_table |-> EmptyTable, field_table |-> EmptyTable]

new_subroutine_symbol_table == [argument_table |-> EmptyTable, var_table |-> EmptyTable]

insert_field(symbol_table, key, value) ==
    [symbol_table EXCEPT !.field_table = table_insert(@, key, value)]

insert_static(symbol_table, key, value) ==
    [symbol_table EXCEPT !.static_table = table_insert(@, key, value)]

insert_var(symbol_table, key, value) ==
    [symbol_table EXCEPT !.var_table = table_insert(@, key, value)]

insert_argument(symbol_table, key, value) ==
    [symbol_table EXCEPT !.argument_table = table_insert(@, key, value)]

get_fields_cnt(symbol_table) == Cardinality(DOMAIN symbol_table.field_table)

-----------------------------------------------------------------------------
(* compiler/mod.rs: Pad and its Display                                    *)

PadStr(pad) == IF pad = "One" THEN "    " ELSE ""

-----------------------------------------------------------------------------
(* compiler/class_compiler.rs                                              *)

new_class_compiler(cls) ==
    [class_name   |-> cls.class_name,
     label_index  |-> 0,
     symbol_table |-> new_class_symbol_table,
     output       |-> << >>]

RECURSIVE insert_names(_, _, _, _)
insert_names(symbol_table, kind, names, type) ==
    IF Len(names) = 0 THEN symbol_table
    ELSE insert_names(
            IF kind = "Static" THEN insert_static(symbol_table, Head(names), type)
            ELSE IF kind = "Field" THEN insert_field(symbol_table, Head(names), type)
            ELSE IF kind = "Var" THEN insert_var(symbol_table, Head(names), type)
            ELSE insert_argument(symbol_table, Head(names), type),
            kind, Tail(names), type)

compile_class_var_dec(cc, class_var_dec) ==
    [cc EXCEPT !.symbol_table =
        insert_names(@, class_var_dec.class_var_dec_kind,
                     class_var_dec.var_names, class_var_dec.class_var_dec_type)]

\* format!("{}_{}", class_name, label_index)
label_name(class_name, n) == class_name \o "_" \o ToStr(n)

-----------------------------------------------------------------------------
(* compiler/subroutine_compiler.rs                                         *)
(* A SubroutineCompiler value sc holds the class compiler it borrows, its  *)
(* own symbol table, output and pad, and res: "ok", "err" (an Err was      *)
(* returned and is being propagated by `?`) or "panic".                    *)

\* a subroutine compiler that inherits a local left by an earlier subroutine
new_subroutine_compiler_leftover(cc) ==
    [class_compiler |-> cc,
     symbol_table   |-> insert_var(new_subroutine_symbol_table, "y", TypeInt),
     output         |-> << >>,
     pad            |-> "None",
     res            |-> "ok"]

new_subroutine_compiler(cc) ==
    [class_compiler |-> cc,
     symbol_table   |-> new_subroutine_symbol_table,
     output         |-> << >>,
     pad            |-> "None",
     res            |-> "ok"]

write_pad(sc, text) ==
    IF sc.res # "ok" THEN sc
    ELSE [sc EXCEPT !.output = Append(@, PadStr(sc.pad) \o text)]

set_pad(sc, pad) == IF sc.res # "ok" THEN sc ELSE [sc EXCEPT !.pad = pad]

fail(sc, how) == IF sc.res # "ok" THEN sc ELSE [sc EXCEPT !.res = how]

bump_label_stuck(sc) == sc

\* ClassCompiler::create_new_label through the borrowed class compiler
bump_label(sc) ==
    IF sc.res # "ok" THEN sc
    ELSE [sc EXCEPT !.class_compiler.label_index = @ + 1]

Found(segment, entry) ==
    [ok |-> TRUE, segment |-> segment, index |-> entry.index,
     has_type |-> entry.type.type = "Class", type_name |-> entry.type.name]

NotFound == [ok |-> FALSE, segment |-> "", index |-> 0, has_type |-> FALSE, type_name |-> ""]

search_var_locals_first(sc, var_name) ==
    IF table_has(sc.symbol_table.var_table, var_name)
    THEN Found("local", sc.symbol_table.var_table[var_name])
    ELSE IF table_has(sc.symbol_table.argument_table, var_name)
    THEN Found("argument", sc.symbol_table.argument_table[var_name])
    ELSE IF table_has(sc.class_compiler.symbol_table.field_table, var_name)
    THEN Found("this", sc.class_compiler.symbol_table.field_table[var_name])
    ELSE IF table_has(sc.class_compiler.symbol_table.static_table, var_name)
    THEN Found("static", sc.class_compiler.symbol_table.static_table[var_name])
    ELSE NotFound

search_var(sc, var_name) ==
    IF table_has(sc.class_compiler.symbol_table.field_table, var_name)
    THEN Found("this", sc.class_compiler.symbol_table.field_table[var_name])
    ELSE IF table_has(sc.symbol_table.var_table, var_name)
    THEN Found("local", sc.symbol_table.var_table[var_name])
    ELSE IF table_has(sc.symbol_table.argument_table, var_name)
    THEN Found("argument", sc.symbol_table.argument_table[var_name])
    ELSE IF table_has(sc.class_compiler.symbol_table.static_table, var_name)
    THEN Found("static", sc.class_compiler.symbol_table.static_table[var_name])
    ELSE NotFound

compile_op(sc, op) ==
    write_pad(sc, CASE op = "Plus"        -> "add"
                    [] op = "Minus"       -> "sub"
                    [] op = "Asterisk"    -> "call Math.multiply 2"
                    [] op = "Slash"       -> "call Math.divide 2"
                    [] op = "Ampersand"   -> "and"
                    [] op = "Pipe"        -> "or"
                    [] op = "LessThan"    -> "lt"
                    [] op = "GreaterThan" -> "gt"
                    [] op = "Equal"       -> "eq")

compile_unary_op(sc, unary_op) ==
    write_pad(sc, IF unary_op = "Minus" THEN "neg" ELSE "not")

RECURSIVE append_bytes(_, _)
append_bytes(sc, bytes) ==
    IF Len(bytes) = 0 THEN sc
    ELSE append_bytes(
            write_pad(write_pad(sc, "push constant " \o ToStr(Head(bytes))),
                      "call String.appendChar 2"),
            Tail(bytes))

RECURSIVE compile_term(_, _)
RECURSIVE compile_expression(_, _)
RECURSIVE compile_op_terms(_, _)
RECURSIVE compile_expression_list(_, _)
RECURSIVE compile_subroutine_call(_, _)
RECURSIVE compile_statement(_, _)
RECURSIVE compile_statements(_, _)

compile_op_terms(sc, terms) ==
    IF Len(terms) = 0 THEN sc
    ELSE compile_op_terms(
            compile_op(compile_term(sc, Head(terms)[2]), Head(terms)[1]),
            Tail(terms))

compile_expression(sc, expression) ==
    compile_op_terms(compile_term(sc, expression.term), expression.terms)

compile_expression_list(sc, expressions) ==
    IF Len(expressions) = 0 THEN sc
    ELSE compile_expression_list(compile_expression(sc, Head(expressions)),
                                 Tail(expressions))

\* `write_pad!(self, "push {} {}", var_segment_name, var_segment_index)` after
\* `self.search_var(..)?`: v is the result of search_var
push_var(sc, v) ==
    IF ~v.ok THEN fail(sc, "err")
    ELSE write_pad(sc, "push " \o v.segment \o " " \o ToStr(v.index))

pop_var(sc, v) ==
    IF ~v.ok THEN fail(sc, "err")
    ELSE write_pad(sc, "pop " \o v.segment \o " " \o ToStr(v.index))

\* Term::VarNameExpression, v being the result of the search_var that precedes
\* the compilation of the index expression
compile_var_name_expression(sc, v, expression) ==
    IF ~v.ok THEN fail(sc, "err")
    ELSE LET s1 == compile_expression(sc, expression)
             s2 == push_var(s1, v)
             s3 == write_pad(s2, "add")
             s4 == write_pad(s3, "pop pointer 1")
         IN  write_pad(s4, "push that 0")

compile_keyword_constant(sc, keyword) ==
    CASE keyword = "True"  -> write_pad(write_pad(sc, "push constant 1"), "neg")
      [] keyword = "False" -> write_pad(sc, "push constant 0")
      [] keyword = "Null"  -> write_pad(sc, "push constant 0")
      [] keyword = "This"  -> write_pad(sc, "push pointer 0")

compile_string_constant(sc, bytes) ==
    append_bytes(
        write_pad(write_pad(sc, "push constant " \o ToStr(Len(bytes))),
                  "call String.new 1"),
        bytes)

compile_term(sc, term) ==
    IF sc.res # "ok" THEN sc
    ELSE CASE term.tag = "StringConstant" -> compile_string_constant(sc, term.bytes)
           [] term.tag = "IntegerConstant" ->
                write_pad(sc, "push constant " \o ToStr(term.int))
           [] term.tag = "KeywordConstant" -> compile_keyword_constant(sc, term.keyword)
           [] term.tag = "VarName" -> push_var(sc, search_var(sc, term.var_name))
           [] term.tag = "VarNameExpression" ->
                compile_var_name_expression(sc, search_var(sc, term.var_name),
                                            term.expression)
           [] term.tag = "Expression" -> compile_expression(sc, term.expression)
           [] term.tag = "UnaryOpTerm" ->
                compile_unary_op(compile_term(sc, term.term), term.unary_op)
           [] term.tag = "SubroutineCall" ->
                compile_subroutine_call(sc, term.subroutine_call)

\* SubroutineCall::Call
\* an unqualified call compiled as a call of a function: no receiver
compile_call_no_receiver(sc, call) ==
    write_pad(compile_expression_list(sc, call.expression_list),
              "call " \o sc.class_compiler.class_name \o "." \o call.subroutine_name
                  \o " " \o ToStr(Len(call.expression_list)))

compile_call(sc, call) ==
    LET s1 == write_pad(sc, "push pointer 0")
        s2 == compile_expression_list(s1, call.expression_list)
    IN  write_pad(s2, "call " \o sc.class_compiler.class_name \o "."
                      \o call.subroutine_name \o " "
                      \o ToStr(Len(call.expression_list) + 1))

\* SubroutineCall::ClassCall, v being the result of search_var on the
\* identifier left of the dot
\* a qualified call dispatched on the written name, the receiver still pushed
compile_class_call_by_name(sc, call, v) ==
    IF v.ok /\ ~v.has_type THEN fail(sc, "panic")
    ELSE write_pad(compile_expression_list(IF v.ok THEN push_var(sc, v) ELSE sc,
                                           call.expression_list),
                   "call " \o call.class_or_var_name \o "." \o call.subroutine_name
                       \o " " \o ToStr(Len(call.expression_list) + (IF v.ok THEN 1 ELSE 0)))

compile_class_call(sc, call, v) ==
    IF v.ok /\ ~v.has_type THEN fail(sc, "panic")
    ELSE LET s1 == IF v.ok THEN push_var(sc, v) ELSE sc
             s2 == compile_expression_list(s1, call.expression_list)
         IN  write_pad(s2, "call "
                           \o (IF v.ok THEN v.type_name ELSE call.class_or_var_name)
                           \o "." \o call.subroutine_name \o " "
                           \o ToStr(Len(call.expression_list) + (IF v.ok THEN 1 ELSE 0)))

compile_subroutine_call(sc, call) ==
    IF sc.res # "ok" THEN sc
    ELSE IF call.tag = "Call" THEN compile_call(sc, call)
    ELSE compile_class_call(sc, call, search_var(sc, call.class_or_var_name))

\* compile_let_statement after its search_var, whose result is v
let_resolved_push(sc, let_statement, v) ==
    IF ~v.ok THEN fail(sc, "err")
    ELSE push_var(compile_expression(sc, let_statement.expression_2), v)

\* an array assignment that binds pointer 1 before the right-hand side
let_resolved_early_pointer(sc, let_statement, v) ==
    IF ~v.ok THEN fail(sc, "err")
    ELSE IF Len(let_statement.expression_1) = 1
    THEN LET s1 == compile_expression(sc, let_statement.expression_1[1])
             s2 == push_var(s1, v)
             s3 == write_pad(write_pad(s2, "add"), "pop pointer 1")
             s4 == compile_expression(s3, let_statement.expression_2)
         IN  write_pad(s4, "pop that 0")
    ELSE pop_var(compile_expression(sc, let_statement.expression_2), v)

let_resolved(sc, let_statement, v) ==
    IF ~v.ok THEN fail(sc, "err")
    ELSE IF Len(let_statement.expression_1) = 1
    THEN LET s1 == compile_expression(sc, let_statement.expression_1[1])
             s2 == push_var(s1, v)
             s3 == write_pad(s2, "add")
             s4 == compile_expression(s3, let_statement.expression_2)
             s5 == write_pad(s4, "pop temp 0")
             s6 == write_pad(s5, "pop pointer 1")
             s7 == write_pad(s6, "push temp 0")
         IN  write_pad(s7, "pop that 0")
    ELSE pop_var(compile_expression(sc, let_statement.expression_2), v)

compile_let_statement(sc, let_statement) ==
    let_resolved(sc, let_statement, search_var(sc, let_statement.var_name))

\* `self.pad = Pad::None; write_pad!(self, "label {label}"); self.pad = Pad::One;`
write_label(sc, label) ==
    set_pad(write_pad(set_pad(sc, "None"), "label " \o label), "One")

compile_else_branch(sc, else_branch) ==
    IF Len(else_branch) = 1 THEN compile_statements(sc, else_branch[1]) ELSE sc

\* an if whose then branch falls through into the else branch
if_labelled_fall_through(sc, if_statement, label_then, label_else) ==
    LET s1 == write_pad(sc, "if-goto " \o label_else)
        s2 == compile_statements(s1, if_statement.then_branch)
        s4 == write_label(s2, label_else)
        s5 == compile_else_branch(s4, if_statement.else_branch)
    IN  write_label(s5, label_then)

\* compile_if_statement after its two create_new_label calls
if_labelled(sc, if_statement, label_then, label_else) ==
    LET s1 == write_pad(sc, "if-goto " \o label_else)
        s2 == compile_statements(s1, if_statement.then_branch)
        s3 == write_pad(s2, "goto " \o label_then)
        s4 == write_label(s3, label_else)
        s5 == compile_else_branch(s4, if_statement.else_branch)
    IN  write_label(s5, label_then)

\* compile_if_statement after the condition and `not` are written
if_condition_done(sc, if_statement) ==
    if_labelled(bump_label(bump_label(sc)), if_statement,
                label_name(sc.class_compiler.class_name, sc.class_compiler.label_index),
                label_name(sc.class_compiler.class_name, sc.class_compiler.label_index + 1))

compile_if_statement(sc, if_statement) ==
    if_condition_done(write_pad(compile_expression(sc, if_statement.condition), "not"),
                      if_statement)

\* a while that tests its condition after the body
while_labelled_test_last(sc, while_statement, label_yes, label_no) ==
    LET s1 == write_label(sc, label_yes)
        s2 == compile_statements(s1, while_statement.body)
        s3 == write_pad(compile_expression(s2, while_statement.condition), "not")
        s4 == write_pad(s3, "if-goto " \o label_no)
        s5 == write_pad(s4, "goto " \o label_yes)
    IN  write_label(s5, label_no)

\* compile_while_statement after its two create_new_label calls
while_labelled(sc, while_statement, label_yes, label_no) ==
    LET s1 == write_label(sc, label_yes)
        s2 == write_pad(compile_expression(s1, while_statement.condition), "not")
        s3 == write_pad(s2, "if-goto " \o label_no)
        s4 == compile_statements(s3, while_statement.body)
        s5 == write_pad(s4, "goto " \o label_yes)
    IN  write_label(s5, label_no)

compile_while_statement(sc, while_statement) ==
    while_labelled(bump_label(bump_label(sc)), while_statement,
                   label_name(sc.class_compiler.class_name, sc.class_compiler.label_index),
                   label_name(sc.class_compiler.class_name, sc.class_compiler.label_index + 1))

\* a do statement that leaves the value of the call on the stack
compile_do_statement_keep_value(sc, do_statement) ==
    compile_subroutine_call(sc, do_statement.subroutine_call)

compile_do_statement(sc, do_statement) ==
    write_pad(compile_subroutine_call(sc, do_statement.subroutine_call), "pop temp 0")

compile_return_statement(sc, return_statement) ==
    LET s1 == IF Len(return_statement.expression) = 1
              THEN compile_expression(sc, return_statement.expression[1])
              ELSE write_pad(sc, "push constant 0")
    IN  write_pad(s1, "return")

compile_statement(sc, statement) ==
    IF sc.res # "ok" THEN sc
    ELSE CASE statement.tag = "LetStatement"    -> compile_let_statement(sc, statement)
           [] statement.tag = "IfStatement"     -> compile_if_statement(sc, statement)
           [] statement.tag = "WhileStatement"  -> compile_while_statement(sc, statement)
           [] statement.tag = "DoStatement"     -> compile_do_statement(sc, statement)
           [] statement.tag = "ReturnStatement" -> compile_return_statement(sc, statement)

compile_statements(sc, statements) ==
    IF Len(statements) = 0 THEN sc
    ELSE compile_statements(compile_statement(sc, Head(statements)), Tail(statements))

RECURSIVE compile_parameter_list(_, _)
compile_parameter_list(sc, parameters) ==
    IF Len(parameters) = 0 THEN sc
    ELSE compile_parameter_list(
            [sc EXCEPT !.symbol_table =
                insert_argument(@, Head(parameters)[2], Head(parameters)[1])],
            Tail(parameters))

RECURSIVE compile_var_decs(_, _)
compile_var_decs(sc, var_decs) ==
    IF Len(var_decs) = 0 THEN sc
    ELSE compile_var_decs(
            [sc EXCEPT !.symbol_table =
                insert_names(@, "Var", Head(var_decs).var_names, Head(var_decs).var_type)],
            Tail(var_decs))

\* the count of the `var` declarations, not of their names
local_args_cnt_declarations(var_decs) == Len(var_decs)

RECURSIVE local_args_cnt(_)
local_args_cnt(var_decs) ==
    IF Len(var_decs) = 0 THEN 0
    ELSE Len(Head(var_decs).var_names) + local_args_cnt(Tail(var_decs))

\* the header with the class and the subroutine as two tokens
function_header_two_tokens(class_name, subroutine_dec) ==
    "function " \o class_name \o " " \o subroutine_dec.subroutine_name \o " "
        \o ToStr(local_args_cnt(subroutine_dec.subroutine_body.var_decs))

function_header(class_name, subroutine_dec) ==
    "function " \o class_name \o "." \o subroutine_dec.subroutine_name \o " "
        \o ToStr(local_args_cnt(subroutine_dec.subroutine_body.var_decs))

constructor_prologue(sc, class_name, subroutine_dec) ==
    LET s1 == write_pad(sc, function_header(class_name, subroutine_dec))
        s2 == set_pad(s1, "One")
        cnt == get_fields_cnt(sc.class_compiler.symbol_table)
        s3 == write_pad(s2, "push constant " \o ToStr(cnt))
        s4 == write_pad(s3, "call Memory.alloc 1")
        s5 == write_pad(s4, "pop pointer 0")
    IN  set_pad(s5, "None")

method_prologue(sc, class_name, subroutine_dec) ==
    LET s1 == write_pad(sc, function_header(class_name, subroutine_dec))
        s2 == set_pad(s1, "One")
        s3 == [s2 EXCEPT !.symbol_table = insert_argument(@, "this", TypeBoolean)]
        s4 == write_pad(s3, "push argument 0")
        s5 == write_pad(s4, "pop pointer 0")
    IN  set_pad(s5, "None")

compile_subroutine_dec(sc, class_name, subroutine_dec) ==
    LET s1 == CASE subroutine_dec.subroutine_dec_type = "Constructor" ->
                    constructor_prologue(sc, class_name, subroutine_dec)
                [] subroutine_dec.subroutine_dec_type = "Function" ->
                    write_pad(sc, function_header(class_name, subroutine_dec))
                [] subroutine_dec.subroutine_dec_type = "Method" ->
                    method_prologue(sc, class_name, subroutine_dec)
        s2 == compile_parameter_list(s1, subroutine_dec.parameter_list)
        s3 == set_pad(compile_var_decs(set_pad(s2, "One"),
                                       subroutine_dec.subroutine_body.var_decs), "None")
        s4 == compile_statements(set_pad(s3, "One"),
                                 subroutine_dec.subroutine_body.statements)
    IN  set_pad(s4, "None")

\* SubroutineCompiler::compile
subroutine_compile(cc, subroutine_dec) ==
    compile_subroutine_dec(new_subroutine_compiler(cc), cc.class_name, subroutine_dec)


\* the instructions of a subroutine join the output also when it failed
extend_output_partial(sc) == [sc.class_compiler EXCEPT !.output = @ \o sc.output]

\* ClassCompiler::compile, the body of its second loop once the subroutine
\* compiler sc has finished: `compiler.output.extend(subroutine_instructions)`,
\* or nothing when `?` returns the Err
extend_output(sc) ==
    IF sc.res = "ok"
    THEN [sc.class_compiler EXCEPT !.output = @ \o sc.output]
    ELSE sc.class_compiler

-----------------------------------------------------------------------------
(* AST builders for the inputs (parser.rs: the AST types)                  *)

Var(n) == [tag |-> "VarName", var_name |-> n]
IntC(n) == [tag |-> "IntegerConstant", int |-> n]
Kw(k)  == [tag |-> "KeywordConstant", keyword |-> k]
Unary(u, t) == [tag |-> "UnaryOpTerm", unary_op |-> u, term |-> t]
Expr1(t) == [term |-> t, terms |-> << >>]
Expr2(t, op, u) == [term |-> t, terms |-> << <<op, u>> >>]
Index(n, e) == [tag |-> "VarNameExpression", var_name |-> n, expression |-> e]
Paren(e) == [tag |-> "Expression", expression |-> e]
Call(n, args) == [tag |-> "Call", subroutine_name |-> n, expression_list |-> args]
ClassCall(c, n, args) ==
    [tag |-> "ClassCall", class_or_var_name |-> c, subroutine_name |-> n,
     expression_list |-> args]
CallTerm(c) == [tag |-> "SubroutineCall", subroutine_call |-> c]

Let(x, e) ==
    [tag |-> "LetStatement", var_name |-> x, expression_1 |-> << >>, expression_2 |-> e]
LetIndex(x, i, e) ==
    [tag |-> "LetStatement", var_name |-> x, expression_1 |-> <<i>>, expression_2 |-> e]
If(c, t) ==
    [tag |-> "IfStatement", condition |-> c, then_branch |-> t, else_branch |-> << >>]
IfElse(c, t, e) ==
    [tag |-> "IfStatement", condition |-> c, then_branch |-> t, else_branch |-> <<e>>]
While(c, b) == [tag |-> "WhileStatement", condition |-> c, body |-> b]
Do(c) == [tag |-> "DoStatement", subroutine_call |-> c]
Return == [tag |-> "ReturnStatement", expression |-> << >>]
ReturnE(e) == [tag |-> "ReturnStatement", expression |-> <<e>>]

ReturnVoid == [type |-> "Void", name |-> ""]

ClassVarDec(kind, type, names) ==
    [class_var_dec_kind |-> kind, class_var_dec_type |-> type, var_names |-> names]
VarDec(type, names) == [var_type |-> type, var_names |-> names]
SubroutineDec(kind, name, params, var_decs, statements) ==
    [subroutine_dec_type |-> kind,
     subroutine_dec_return_type |-> ReturnVoid,
     subroutine_name |-> name,
     parameter_list |-> params,
     subroutine_body |-> [var_decs |-> var_decs, statements |-> statements]]

-----------------------------------------------------------------------------
(* The classes the code generator is run on                                *)

ClassVarDecLists ==
    { << >>,
      << ClassVarDec("Field", TypeInt, <<"x">>) >>,
      << ClassVarDec("Field", TypeInt, <<"x", "y">>) >>,
      << ClassVarDec("Field", TypeInt, <<"x", "x">>) >>,
      << ClassVarDec("Field", TypeInt, <<"x", "x", "y">>) >>,
      << ClassVarDec("Static", TypeInt, <<"x">>) >>,
      << ClassVarDec("Field", TypeInt, <<"y">>), ClassVarDec("Static", TypeInt, <<"x">>) >>,
      << ClassVarDec("Static", TypeClass("Foo"), <<"y">>),
         ClassVarDec("Static", TypeInt, <<"x">>) >>,
      << ClassVarDec("Field", TypeClass("Foo"), <<"y">>),
         ClassVarDec("Field", TypeInt, <<"y">>) >> }

ParamLists ==
    { << >>,
      << <<TypeInt, "x">> >>,
      << <<TypeInt, "x">>, <<TypeClass("Foo"), "y">> >>,
      << <<TypeInt, "x">>, <<TypeInt, "x">>, <<TypeInt, "y">> >> }

VarDecLists ==
    { << VarDec(TypeInt, <<"x">>) >>,
      << VarDec(TypeInt, <<"y", "x">>) >>,
      << VarDec(TypeInt, <<"y", "y">>), VarDec(TypeClass("Foo"), <<"x">>) >> }

Kinds == {"Constructor", "Function", "Method"}

X == Expr1(Var("x"))
Y == Expr1(Var("y"))

BodyUse == << Let("x", Y), Return >>

Bodies ==
    { << Return >>,
      << Let("y", Expr2(Var("x"), "Plus", IntC(1))), ReturnE(Y) >>,
      << IfElse(X, << Let("y", Expr1(IntC(1))) >>, << Let("y", Expr1(IntC(2))) >>), Return >>,
      << If(X, << Let("y", Expr1(IntC(1))) >>), Return >>,
      << While(X, << Let("x", Expr2(Var("x"), "Minus", IntC(1))) >>), Return >>,
      << While(X, << IfElse(Y, << Let("y", Expr1(IntC(0))) >>, << While(Y, << >>) >>) >>),
         Return >>,
      << If(X, << If(Y, << >>) >>), If(Y, << >>) >>,
      << Let("z", Expr1(IntC(1))), Return >>,
      << Let("x", Expr1(Var("z"))), Return >>,
      << Do(Call("f", <<X>>)), Return >>,
      << Do(ClassCall("Foo", "g", <<Expr1(IntC(1)), Y>>)), Return >>,
      << Let("y", Expr1(Index("x", Expr1(IntC(1))))),
         Let("y", Expr1(Unary("Minus", Var("x")))), Return >> }

LabelBodies ==
    { << IfElse(X, << Let("y", Expr1(IntC(1))) >>, << Let("y", Expr1(IntC(2))) >>), Return >>,
      << While(X, << IfElse(Y, << Let("y", Expr1(IntC(0))) >>, << While(Y, << >>) >>) >>),
         Return >> }

\* bodies that start with a call, unqualified or qualified
CallBodies ==
    { << Do(Call("f", << X, Expr1(IntC(2)) >>)), Return >>,
      << Do(Call("f", << >>)), Return >>,
      << Do(ClassCall("y", "g", << X >>)), Return >>,
      << Do(ClassCall("w", "g", << Expr1(IntC(1)), X >>)), Return >> }

\* bodies that start with an assignment to an array element
IndexBodies ==
    { << LetIndex("x", Expr1(IntC(1)), Y), Return >>,
      << LetIndex("x", Y, Expr1(Index("y", Expr1(IntC(2))))), Return >>,
      << LetIndex("x", Expr2(Var("y"), "Plus", IntC(1)),
                  Expr2(Index("x", Y), "Plus", Index("y", Expr1(IntC(0))))), Return >> }

SubroutineDecs ==
    { SubroutineDec(k, "f", p, << >>, BodyUse) : k \in Kinds, p \in ParamLists }
    \cup
    { SubroutineDec(k, "g", p, v, BodyUse) :
        k \in {"Function", "Method"},
        p \in { << >>, << <<TypeInt, "x">> >> },
        v \in VarDecLists }
    \cup
    { SubroutineDec("Function", "main", << <<TypeInt, "x">> >>,
                    << VarDec(TypeInt, <<"y">>) >>, b) : b \in Bodies }
    \cup
    { SubroutineDec(k, "run", << <<TypeInt, "x">> >>,
                    << VarDec(TypeInt, <<"y">>) >>, b) :
        k \in {"Constructor", "Method"}, b \in LabelBodies }
    \cup
    { SubroutineDec(k, "call", << <<TypeInt, "x">>, <<TypeClass("Foo"), "y">> >>, << >>, b) :
        k \in Kinds, b \in CallBodies }
    \cup
    { SubroutineDec("Method", "call", << >>,
                    << VarDec(TypeInt, <<"x">>), VarDec(TypeClass("Foo"), <<"y">>) >>,
                    << Do(ClassCall("y", "g", << X >>)), Return >>) }
    \cup
    { SubroutineDec(k, "store", << <<TypeInt, "x">> >>, << VarDec(TypeInt, <<"y">>) >>, b) :
        k \in {"Function", "Method"}, b \in IndexBodies }

-----------------------------------------------------------------------------
(* Tokens and the MultiPeek token stream of the parser                     *)

Token(type, value, int) == [type |-> type, value |-> value, int |-> int]
KW(k)  == Token("Keyword", k, 0)
SY(s)  == Token("Symbol", s, 0)
ID(n)  == Token("Identifier", n, 0)
INT(n) == Token("Constant", "", n)
EOF    == Token("Eof", "eof", 0)

\* what `peek()` and `next()` give when the stream is exhausted
NoToken == Token("None", "", 0)

\* a parser at the start of the token list; res is the outcome so far
\* ("ok", "err" for a None or Err return, "panic"), stack holds the values
\* of the productions parsed so far
new_parser(tokens) ==
    [tokens |-> tokens, pos |-> 1, index |-> 0, res |-> "ok", stack |-> << >>]

\* MultiPeek::peek: the token under the peek cursor, which advances on success
peeked(p) ==
    IF p.pos + p.index <= Len(p.tokens) THEN p.tokens[p.pos + p.index] ELSE NoToken

peek(p) ==
    IF p.pos + p.index <= Len(p.tokens) THEN [p EXCEPT !.index = @ + 1] ELSE p

\* MultiPeek::next: the token at the front; the peek cursor is reset
front(p) == IF p.pos <= Len(p.tokens) THEN p.tokens[p.pos] ELSE NoToken

next(p) ==
    IF p.res # "ok" THEN p
    ELSE [p EXCEPT !.index = 0, !.pos = IF @ <= Len(p.tokens) THEN @ + 1 ELSE @]

reset_peek(p) == [p EXCEPT !.index = 0]

is(token, type, value) == token.type = type /\ token.value = value

\* consume!(..)? : fails on an exhausted stream
consume(p) ==
    IF p.res # "ok" THEN p
    ELSE IF front(p) = NoToken THEN fail(p, "err") ELSE next(p)

\* consume_and_ensure_matches!(..)? : the token is taken even when it mismatches
consume_and_ensure_matches(p, type, value) ==
    IF p.res # "ok" THEN p
    ELSE IF is(front(p), type, value) THEN next(p) ELSE fail(next(p), "err")

\* consume!(..)?.try_into()? for an Identifier, whose name is pushed; on an
\* exhausted stream `next` takes nothing and the result is the Err of consume!
consume_identifier(p) ==
    IF p.res # "ok" THEN p
    ELSE IF front(p).type = "Identifier"
         THEN [next(p) EXCEPT !.stack = Append(@, front(p).value)]
         ELSE fail(next(p), "err")

push(p, v) == IF p.res # "ok" THEN p ELSE [p EXCEPT !.stack = Append(@, v)]

top(p, k) == p.stack[Len(p.stack) - k]

replace_top(p, n, v) == [p EXCEPT !.stack = Append(SubSeq(@, 1, Len(@) - n), v)]

\* the n values on top of the stack become the one value Make builds of them
reduce(p, n, Make(_)) ==
    IF p.res # "ok" THEN p
    ELSE replace_top(p, n, Make(SubSeq(p.stack, Len(p.stack) - n + 1, Len(p.stack))))

\* the state a caller continues from when it handles a None or an Err
recover(q, stack) ==
    IF q.res = "err" THEN [q EXCEPT !.res = "ok", !.stack = stack] ELSE q

KeywordConstants == {"true", "false", "null", "this"}

KeywordConstantOf(value) ==
    CASE value = "true" -> "True" [] value = "false" -> "False"
      [] value = "null" -> "Null" [] value = "this" -> "This"

parse_keyword_constant(p) ==
    IF p.res # "ok" THEN p
    ELSE IF peeked(p) = NoToken THEN fail(p, "err")
    ELSE IF peeked(p).type = "Keyword" /\ peeked(p).value \in KeywordConstants
         THEN push(next(p), Kw(KeywordConstantOf(peeked(p).value)))
         ELSE fail(reset_peek(p), "err")

parse_unary_op(p) ==
    IF p.res # "ok" THEN p
    ELSE IF peeked(p) = NoToken THEN fail(p, "err")
    ELSE IF peeked(p).type = "Symbol" /\ peeked(p).value \in {"-", "~"}
         THEN push(next(p), IF peeked(p).value = "-" THEN "Minus" ELSE "Tilde")
         ELSE fail(reset_peek(p), "err")

Ops == {"+", "-", "*", "/", "&", "|", "<", ">", "="}

OpOf(value) ==
    CASE value = "+" -> "Plus" [] value = "-" -> "Minus" [] value = "*" -> "Asterisk"
      [] value = "/" -> "Slash" [] value = "&" -> "Ampersand" [] value = "|" -> "Pipe"
      [] value = "<" -> "LessThan" [] value = ">" -> "GreaterThan"
      [] value = "=" -> "Equal"

parse_op(p) ==
    IF p.res # "ok" THEN p
    ELSE IF peeked(p) = NoToken THEN fail(p, "err")
    ELSE IF peeked(p).type = "Symbol" /\ peeked(p).value \in Ops
         THEN push(next(p), OpOf(peeked(p).value))
         ELSE fail(reset_peek(p), "err")

parse_identifier(p) ==
    IF p.res # "ok" THEN p
    ELSE IF peeked(p) = NoToken THEN fail(p, "err")
    ELSE IF peeked(p).type = "Identifier" THEN consume_identifier(p)
         ELSE fail(reset_peek(p), "err")

TypeKeywords == {"int", "char", "boolean"}

TypeOf(token) ==
    CASE is(token, "Keyword", "int") -> TypeInt
      [] is(token, "Keyword", "char") -> TypeChar
      [] is(token, "Keyword", "boolean") -> TypeBoolean
      [] token.type = "Identifier" -> TypeClass(token.value)

\* a parse_type that answers `int` where no type stands, consuming nothing
parse_type_or_int(p) ==
    IF p.res # "ok" THEN p
    ELSE IF peeked(p) = NoToken THEN fail(p, "err")
    ELSE IF ~(  (peeked(p).type = "Keyword" /\ peeked(p).value \in TypeKeywords)
             \/ peeked(p).type = "Identifier")
         THEN push(reset_peek(p), TypeInt)
    ELSE IF (front(p).type = "Keyword" /\ front(p).value \in TypeKeywords)
             \/ front(p).type = "Identifier"
         THEN push(next(p), TypeOf(front(p)))
         ELSE fail(next(p), "panic")

\* the peeked token decides whether a type follows, the front token is the
\* one consumed: `unreachable!()` when the two differ and the front is no type
parse_type(p) ==
    IF p.res # "ok" THEN p
    ELSE IF peeked(p) = NoToken THEN fail(p, "err")
    ELSE IF ~(  (peeked(p).type = "Keyword" /\ peeked(p).value \in TypeKeywords)
             \/ peeked(p).type = "Identifier")
         THEN fail(reset_peek(p), "err")
    ELSE IF (front(p).type = "Keyword" /\ front(p).value \in TypeKeywords)
             \/ front(p).type = "Identifier"
         THEN push(next(p), TypeOf(front(p)))
         ELSE fail(next(p), "panic")

RECURSIVE parse_term(_), parse_expression(_), parse_expression_list_loop(_),
          parse_subroutine_call(_), parse_statement(_), parse_statements_loop(_)

\* a parse_expression that takes every (op, term) pair that follows
RECURSIVE greedy_rest(_)
greedy_append(q) ==
    IF q.res # "ok" THEN q
    ELSE greedy_rest(replace_top(q, 3, [top(q, 2) EXCEPT
                        !.terms = Append(@, << top(q, 1), top(q, 0) >>)]))

greedy_op(q, stack) ==
    IF q.res # "ok" THEN recover(q, stack) ELSE greedy_append(parse_term(q))

greedy_rest(p) == greedy_op(parse_op(p), p.stack)

greedy_pair(q) ==
    IF q.res # "ok" THEN q
    ELSE greedy_rest(reduce(q, 3, LAMBDA a : Expr2(a[1], a[2], a[3])))

expression_op_greedy(q, stack) ==
    IF q.res = "ok" THEN greedy_pair(parse_term(q))
    ELSE reduce(recover(q, stack), 1, LAMBDA a : Expr1(a[1]))

\* parse_expression after `if let Some(op) = self.parse_op()`, whose state is q
expression_op(q, stack) ==
    IF q.res = "ok" THEN reduce(parse_term(q), 3, LAMBDA a : Expr2(a[1], a[2], a[3]))
    ELSE reduce(recover(q, stack), 1, LAMBDA a : Expr1(a[1]))

\* parse_expression after its head term
expression_head(q) ==
    IF q.res # "ok" THEN q ELSE expression_op(parse_op(q), q.stack)

parse_expression(p) == expression_head(parse_term(p))

\* Term::Constant: `consume!(self.tokens)?.try_into()?`
term_constant(p) ==
    IF front(p).type = "Constant" THEN push(next(p), IntC(front(p).int))
    ELSE fail(next(p), "err")

\* the result of a `let _ = consume_and_ensure_matches!(..)` is dropped
consume_ignored(p) == next(p)

\* Term::Expression: '(' expression ')'
term_paren(p) ==
    reduce(consume_ignored(parse_expression(consume_ignored(p))), 1, LAMBDA a : Paren(a[1]))

\* Term::VarNameExpression: varName '[' expression ']'
term_index(p) ==
    LET s1 == consume_identifier(p)
        s2 == consume_and_ensure_matches(s1, "Symbol", "[")
        s3 == parse_expression(s2)
        s4 == consume_and_ensure_matches(s3, "Symbol", "]")
    IN  reduce(s4, 2, LAMBDA a : Index(a[1], a[2]))

\* parse_term after `if let Ok(subroutine_call) = self.parse_subroutine_call()`
term_call_or_var(q, stack) ==
    IF q.res = "ok" THEN reduce(q, 1, LAMBDA a : CallTerm(a[1]))
    ELSE reduce(consume_identifier(recover(q, stack)), 1, LAMBDA a : Var(a[1]))

\* the Identifier arm of parse_term, the peek cursor being past next_1
term_identifier(p) ==
    IF is(peeked(p), "Symbol", "[") THEN term_index(peek(p))
    ELSE term_call_or_var(parse_subroutine_call(reset_peek(p)), p.stack)

\* the `_` arm of parse_term after its parse_unary_op, whose state is q
term_other_unary(q) ==
    IF q.res = "ok" THEN reduce(parse_term(q), 2, LAMBDA a : Unary(a[1], a[2]))
    ELSE fail(recover(q, q.stack), "panic")

\* the `_` arm of parse_term after its parse_keyword_constant, whose state is q
term_other_keyword(q, stack) ==
    IF q.res # "err" THEN q ELSE term_other_unary(parse_unary_op(recover(q, stack)))

\* the `_` arm of parse_term, the peek cursor being past next_1
term_other(p) == term_other_keyword(parse_keyword_constant(p), p.stack)

\* parse_term from `let next_1 = self.tokens.peek()` on
term_next_1(p) ==
    IF p.res # "ok" THEN p
    ELSE IF peeked(p) = NoToken THEN fail(p, "err")
    ELSE CASE peeked(p).type = "Constant" -> term_constant(peek(p))
           [] is(peeked(p), "Symbol", "(") -> term_paren(peek(p))
           [] peeked(p).type = "Identifier" -> term_identifier(peek(p))
           [] OTHER -> term_other(peek(p))

\* parse_term after its first parse_unary_op, whose state is q
term_unary(q, stack) ==
    IF q.res = "ok" THEN reduce(parse_term(q), 2, LAMBDA a : Unary(a[1], a[2]))
    ELSE term_next_1(recover(q, stack))

\* parse_term after its first parse_keyword_constant, whose state is q
term_keyword(q, stack) ==
    IF q.res # "err" THEN q ELSE term_unary(parse_unary_op(recover(q, stack)), stack)

parse_term(p) ==
    IF p.res # "ok" THEN p ELSE term_keyword(parse_keyword_constant(p), p.stack)

\* one round of `while let Ok(expression) = self.parse_expression()`: the
\* expression, whose state is q, joins the list under it on the stack
expression_list_next(q, stack) ==
    IF q.res = "panic" THEN q
    ELSE IF q.res = "err" THEN recover(q, stack)
    ELSE IF is(peeked(q), "Symbol", ",")
         THEN parse_expression_list_loop(
                next(reset_peek(replace_top(q, 2, Append(top(q, 1), top(q, 0))))))
         ELSE reset_peek(replace_top(q, 2, Append(top(q, 1), top(q, 0))))

parse_expression_list_loop(p) ==
    IF p.res # "ok" THEN p ELSE expression_list_next(parse_expression(p), p.stack)

parse_expression_list(p) == parse_expression_list_loop(push(p, << >>))

\* the arguments of a call from after its '(' on
call_arguments(p) ==
    IF p.res # "ok" THEN p
    ELSE IF is(peeked(p), "Symbol", ")")
         THEN push(consume_and_ensure_matches(reset_peek(p), "Symbol", ")"), << >>)
         ELSE consume_and_ensure_matches(parse_expression_list(reset_peek(p)),
                                         "Symbol", ")")

\* SubroutineCall::Call, the peek cursor being past next_2
subroutine_call_plain(p) ==
    LET s1 == consume_identifier(p)
        s2 == consume_and_ensure_matches(s1, "Symbol", "(")
    IN  reduce(call_arguments(s2), 2, LAMBDA a : Call(a[1], a[2]))

\* SubroutineCall::ClassCall, the peek cursor being past next_2
subroutine_call_class(p) ==
    LET s1 == consume_identifier(p)
        s2 == consume_and_ensure_matches(s1, "Symbol", ".")
        s3 == consume_identifier(s2)
        s4 == consume_and_ensure_matches(s3, "Symbol", "(")
    IN  reduce(call_arguments(s4), 3, LAMBDA a : ClassCall(a[1], a[2], a[3]))

\* parse_subroutine_call from `let next_2 = self.tokens.peek()` on
subroutine_call_next_2(p) ==
    IF peeked(p) = NoToken THEN fail(p, "err")
    ELSE CASE is(peeked(p), "Symbol", "(") -> subroutine_call_plain(peek(p))
           [] is(peeked(p), "Symbol", ".") -> subroutine_call_class(peek(p))
           [] OTHER -> fail(reset_peek(p), "err")

parse_subroutine_call(p) ==
    IF p.res # "ok" THEN p
    ELSE IF peeked(p) = NoToken THEN fail(p, "err")
    ELSE IF peeked(p).type # "Identifier" THEN fail(reset_peek(p), "err")
    ELSE subroutine_call_next_2(peek(p))

\* the optional `[ expression ]` of a let statement, pushed as an Option
let_index(p) ==
    IF p.res # "ok" THEN p
    ELSE IF is(peeked(p), "Symbol", "[")
         THEN reduce(consume_and_ensure_matches(parse_expression(consume(reset_peek(p))),
                                                "Symbol", "]"),
                     1, LAMBDA a : << a[1] >>)
         ELSE push(reset_peek(p), << >>)

parse_let_statement(p) ==
    IF p.res # "ok" THEN p
    ELSE IF ~is(peeked(p), "Keyword", "let") THEN fail(reset_peek(p), "err")
    ELSE LET s1 == consume_and_ensure_matches(reset_peek(p), "Keyword", "let")
             s2 == let_index(parse_identifier(s1))
             s3 == consume_and_ensure_matches(s2, "Symbol", "=")
             s4 == parse_expression(s3)
             s5 == consume_and_ensure_matches(s4, "Symbol", ";")
         IN  reduce(s5, 3, LAMBDA a : [tag |-> "LetStatement", var_name |-> a[1],
                            expression_1 |-> a[2], expression_2 |-> a[3]])

parse_statements(p) == parse_statements_loop(push(p, << >>))

\* '{' statements '}'
parse_block(p) ==
    consume_and_ensure_matches(
        parse_statements(consume_and_ensure_matches(p, "Symbol", "{")), "Symbol", "}")

\* the optional else branch of an if statement, pushed as an Option
if_else(p) ==
    IF p.res # "ok" THEN p
    ELSE IF is(peeked(p), "Keyword", "else")
         THEN reduce(parse_block(consume(reset_peek(p))), 1, LAMBDA a : << a[1] >>)
         ELSE push(reset_peek(p), << >>)

\* '(' expression ')'
parse_condition(p) ==
    consume_and_ensure_matches(
        parse_expression(consume_and_ensure_matches(p, "Symbol", "(")), "Symbol", ")")

parse_if_statement(p) ==
    IF p.res # "ok" THEN p
    ELSE IF ~is(peeked(p), "Keyword", "if") THEN fail(reset_peek(p), "err")
    ELSE LET s1 == consume_and_ensure_matches(reset_peek(p), "Keyword", "if")
             s2 == parse_block(parse_condition(s1))
         IN  reduce(if_else(s2), 3, LAMBDA a : [tag |-> "IfStatement", condition |-> a[1],
                            then_branch |-> a[2], else_branch |-> a[3]])

parse_while_statement(p) ==
    IF p.res # "ok" THEN p
    ELSE IF ~is(peeked(p), "Keyword", "while") THEN fail(reset_peek(p), "err")
    ELSE LET s1 == consume_and_ensure_matches(reset_peek(p), "Keyword", "while")
         IN  reduce(parse_block(parse_condition(s1)), 2, LAMBDA a : While(a[1], a[2]))

parse_do_statement(p) ==
    IF p.res # "ok" THEN p
    ELSE IF ~is(peeked(p), "Keyword", "do") THEN fail(reset_peek(p), "err")
    ELSE LET s1 == consume_and_ensure_matches(reset_peek(p), "Keyword", "do")
             s2 == parse_subroutine_call(s1)
         IN  reduce(consume_and_ensure_matches(s2, "Symbol", ";"), 1, LAMBDA a : Do(a[1]))

\* parse_return_statement after its `return` keyword
return_expression(p) ==
    IF p.res # "ok" THEN p
    ELSE IF is(peeked(p), "Symbol", ";") THEN push(consume(reset_peek(p)), Return)
    ELSE reduce(consume_and_ensure_matches(parse_expression(reset_peek(p)), "Symbol", ";"),
                1, LAMBDA a : ReturnE(a[1]))

parse_return_statement(p) ==
    IF p.res # "ok" THEN p
    ELSE IF ~is(peeked(p), "Keyword", "return") THEN fail(reset_peek(p), "err")
    ELSE return_expression(consume_and_ensure_matches(reset_peek(p), "Keyword", "return"))

\* parse_statement: the next alternative is tried from where the failed one stopped
statement_return(q, stack) ==
    IF q.res # "err" THEN q ELSE parse_return_statement(recover(q, stack))

statement_do(q, stack) ==
    IF q.res # "err" THEN q
    ELSE statement_return(parse_do_statement(recover(q, stack)), stack)

statement_while(q, stack) ==
    IF q.res # "err" THEN q
    ELSE statement_do(parse_while_statement(recover(q, stack)), stack)

statement_if(q, stack) ==
    IF q.res # "err" THEN q
    ELSE statement_while(parse_if_statement(recover(q, stack)), stack)

parse_statement(p) ==
    IF p.res # "ok" THEN p ELSE statement_if(parse_let_statement(p), p.stack)

\* one round of `while let Some(statement) = self.parse_statement()`
statements_next(q, stack) ==
    IF q.res = "panic" THEN q
    ELSE IF q.res = "err" THEN recover(q, stack)
    ELSE parse_statements_loop(replace_top(q, 2, Append(top(q, 1), top(q, 0))))

parse_statements_loop(p) ==
    IF p.res # "ok" THEN p ELSE statements_next(parse_statement(p), p.stack)

RECURSIVE parameter_list_loop(_), var_names_loop(_), var_decs_loop(_),
          class_var_names_loop(_), class_var_decs_loop(_), subroutine_decs_loop(_)

\* a parameter joins the list: `parameters.push((r#type, var_name))`
parameter_name(q) ==
    IF q.res # "ok" THEN q
    ELSE IF is(peeked(q), "Symbol", ",")
         THEN parameter_list_loop(
                next(reset_peek(replace_top(q, 3, Append(top(q, 2),
                                                         << top(q, 1), top(q, 0) >>)))))
         ELSE reset_peek(replace_top(q, 3, Append(top(q, 2), << top(q, 1), top(q, 0) >>)))

\* one round of `while let Some(r#type) = self.parse_type()`
parameter_type(q, stack) ==
    IF q.res = "panic" THEN q
    ELSE IF q.res = "err" THEN recover(q, stack)
    ELSE parameter_name(parse_identifier(q))

parameter_list_loop(p) ==
    IF p.res # "ok" THEN p ELSE parameter_type(parse_type(p), p.stack)

parse_parameeter_list(p) == parameter_list_loop(push(p, << >>))

\* `var_names.push(var_name)` and the comma test of parse_var_dec
var_names_next(q) ==
    IF q.res # "ok" THEN q
    ELSE IF is(peeked(q), "Symbol", ",")
         THEN var_names_loop(
                next(reset_peek(replace_top(q, 2, Append(top(q, 1), top(q, 0))))))
         ELSE reset_peek(replace_top(q, 2, Append(top(q, 1), top(q, 0))))

var_names_loop(p) == IF p.res # "ok" THEN p ELSE var_names_next(parse_identifier(p))

parse_var_dec(p) ==
    IF p.res # "ok" THEN p
    ELSE IF ~is(peeked(p), "Keyword", "var") THEN fail(reset_peek(p), "err")
    ELSE LET s1 == consume_and_ensure_matches(reset_peek(p), "Keyword", "var")
             s2 == var_names_loop(push(parse_type(s1), << >>))
         IN  reduce(consume_and_ensure_matches(s2, "Symbol", ";"),
                    2, LAMBDA a : VarDec(a[1], a[2]))

\* one round of `while let Some(var_dec) = self.parse_var_dec()`
var_decs_next(q, stack) ==
    IF q.res = "panic" THEN q
    ELSE IF q.res = "err" THEN recover(q, stack)
    ELSE var_decs_loop(replace_top(q, 2, Append(top(q, 1), top(q, 0))))

var_decs_loop(p) == IF p.res # "ok" THEN p ELSE var_decs_next(parse_var_dec(p), p.stack)

parse_subroutine_body(p) ==
    LET s1 == consume_and_ensure_matches(p, "Symbol", "{")
        s2 == parse_statements(var_decs_loop(push(s1, << >>)))
    IN  reduce(consume_and_ensure_matches(s2, "Symbol", "}"),
               2, LAMBDA a : [var_decs |-> a[1], statements |-> a[2]])

SubroutineKeywords == {"constructor", "function", "method"}

SubroutineDecTypeOf(value) ==
    CASE value = "constructor" -> "Constructor" [] value = "function" -> "Function"
      [] value = "method" -> "Method"

\* the return type of parse_subroutine_dec: parse_type runs with the peek
\* cursor already past the first token
subroutine_return_type(p) ==
    IF p.res # "ok" THEN p
    ELSE IF peeked(p) = NoToken THEN fail(p, "err")
    ELSE IF is(peeked(p), "Keyword", "void") THEN push(next(p), ReturnVoid)
    ELSE parse_type(peek(p))

\* parse_subroutine_dec from `consume!(self.tokens).ok()?` on
subroutine_dec_kind(p) ==
    IF ~(front(p).type = "Keyword" /\ front(p).value \in SubroutineKeywords)
    THEN fail(next(p), "panic")
    ELSE LET s1 == push(next(p), SubroutineDecTypeOf(front(p).value))
             s2 == consume_identifier(subroutine_return_type(s1))
             s3 == consume_and_ensure_matches(s2, "Symbol", "(")
             s4 == consume_and_ensure_matches(parse_parameeter_list(s3), "Symbol", ")")
         IN  reduce(parse_subroutine_body(s4), 5, LAMBDA a :
                [subroutine_dec_type |-> a[1], subroutine_dec_return_type |-> a[2],
                 subroutine_name |-> a[3], parameter_list |-> a[4],
                 subroutine_body |-> a[5]])

parse_subroutine_dec(p) ==
    IF p.res # "ok" THEN p
    ELSE IF peeked(p) = NoToken THEN fail(p, "err")
    ELSE IF ~(peeked(p).type = "Keyword" /\ peeked(p).value \in SubroutineKeywords)
         THEN fail(reset_peek(p), "err")
    ELSE subroutine_dec_kind(peek(p))

\* `var_names.push(var_name)` and the comma test of parse_class_var_dec
class_var_names_next(q) ==
    IF q.res # "ok" THEN q
    ELSE IF peeked(q) = NoToken THEN fail(q, "err")
    ELSE IF is(peeked(q), "Symbol", ",")
         THEN class_var_names_loop(
                consume(replace_top(q, 2, Append(top(q, 1), top(q, 0)))))
         ELSE reset_peek(replace_top(q, 2, Append(top(q, 1), top(q, 0))))

class_var_names_loop(p) ==
    IF p.res # "ok" THEN p ELSE class_var_names_next(parse_identifier(p))

parse_class_var_dec(p) ==
    IF p.res # "ok" THEN p
    ELSE IF peeked(p) = NoToken THEN fail(p, "err")
    ELSE IF ~(peeked(p).type = "Keyword" /\ peeked(p).value \in {"static", "field"})
         THEN fail(reset_peek(p), "err")
    ELSE LET s1 == push(next(p), IF peeked(p).value = "static" THEN "Static" ELSE "Field")
             s2 == class_var_names_loop(push(parse_type(s1), << >>))
         IN  reduce(consume_and_ensure_matches(s2, "Symbol", ";"),
                    3, LAMBDA a : ClassVarDec(a[1], a[2], a[3]))

\* one round of `while let Some(class_var_dec) = self.parse_class_var_dec()`
class_var_decs_next(q, stack) ==
    IF q.res = "panic" THEN q
    ELSE IF q.res = "err" THEN recover(q, stack)
    ELSE class_var_decs_loop(replace_top(q, 2, Append(top(q, 1), top(q, 0))))

class_var_decs_loop(p) ==
    IF p.res # "ok" THEN p ELSE class_var_decs_next(parse_class_var_dec(p), p.stack)

\* one round of `while let Some(subroutine_dec) = self.parse_subroutine_dec()`
subroutine_decs_next(q, stack) ==
    IF q.res = "panic" THEN q
    ELSE IF q.res = "err" THEN recover(q, stack)
    ELSE subroutine_decs_loop(replace_top(q, 2, Append(top(q, 1), top(q, 0))))

subroutine_decs_loop(p) ==
    IF p.res # "ok" THEN p ELSE subroutine_decs_next(parse_subroutine_dec(p), p.stack)

\* a class body read as declarations of both kinds in two rounds
parse_class_two_rounds(p) ==
    LET s1 == consume_identifier(consume_ignored(p))
        s2 == class_var_decs_loop(push(consume_ignored(s1), << >>))
        s3 == subroutine_decs_loop(push(s2, << >>))
        s4 == class_var_decs_loop(push(s3, << >>))
        s5 == subroutine_decs_loop(push(s4, << >>))
    IN  reduce(consume_ignored(s5), 5, LAMBDA a :
               [class_name |-> a[1], class_var_decs |-> a[2] \o a[4],
                            subroutine_decs |-> a[3] \o a[5]])

\* the results of the three consume_and_ensure_matches! are dropped
parse_class(p) ==
    LET s1 == consume_identifier(consume_ignored(p))
        s2 == class_var_decs_loop(push(consume_ignored(s1), << >>))
        s3 == subroutine_decs_loop(push(s2, << >>))
    IN  reduce(consume_ignored(s3), 3, LAMBDA a :
               [class_name |-> a[1], class_var_decs |-> a[2],
                            subroutine_decs |-> a[3]])

\* Parser::parse, one call of the iterator: res is "ok" with the Class on the
\* stack for Some(Ok(class)), "none" for None, "panic" for a panic
parse_result(q) == IF q.res = "err" THEN [q EXCEPT !.res = "none"] ELSE q

parse(p) ==
    IF peeked(p) = NoToken \/ peeked(p).type = "Eof"
    THEN [peek(p) EXCEPT !.res = "none"]
    ELSE parse_result(parse_class(peek(p)))

-----------------------------------------------------------------------------
(* The state machine of ClassCompiler::compile                             *)

Init ==
    /\ \E decs \in ClassVarDecLists :
          class = [class_name |-> "Main", class_var_decs |-> decs,
                   subroutine_decs |-> << >>]
    /\ class_compiler = new_class_compiler(class)
    /\ subroutine_compiler = new_subroutine_compiler(class_compiler)
    /\ pc = [i |-> 0, result |-> "running"]
    /\ parser = new_parser(<< >>)
    /\ nodes = << >>
    /\ instructions = << >>
    /\ input = [base |-> 0, mutation |-> "none", at |-> 0]
    /\ expr = [state |-> "idle"]
    /\ dir = NoDir
    /\ compiler = NoCompiler
    /\ asm = NoAsm

\* first loop of ClassCompiler::compile: one class variable declaration
CompileClassVarDec ==
    /\ pc.result = "running"
    /\ pc.i < Len(class.class_var_decs)
    /\ class_compiler' = compile_class_var_dec(class_compiler, class.class_var_decs[pc.i + 1])
    /\ pc' = [pc EXCEPT !.i = @ + 1]
    /\ UNCHANGED <<class, subroutine_compiler, parser, nodes, instructions, input, expr, dir, compiler, asm>>

\* second loop of ClassCompiler::compile: the next subroutine declaration
CompileSubroutine(subroutine_dec) ==
    /\ pc.result = "running"
    /\ pc.i = Len(class.class_var_decs)
    /\ Len(class.subroutine_decs) < MaxSubs
    /\ class' = [class EXCEPT !.subroutine_decs = Append(@, subroutine_dec)]
    /\ subroutine_compiler' = subroutine_compile(class_compiler, subroutine_dec)
    /\ class_compiler' = extend_output(subroutine_compiler')
    /\ pc' = [pc EXCEPT !.result =
                IF subroutine_compiler'.res = "ok" THEN "running"
                ELSE subroutine_compiler'.res]
    /\ UNCHANGED <<parser, nodes, instructions, input, expr, dir, compiler, asm>>

\* ClassCompiler::compile returns Ok(compiler.output)
CompileReturn ==
    /\ pc.result = "running"
    /\ pc.i = Len(class.class_var_decs)
    /\ pc' = [pc EXCEPT !.result = "ok"]
    /\ UNCHANGED <<class, class_compiler, subroutine_compiler, parser, nodes,
                   instructions, input, expr, dir, compiler, asm>>

Next ==
    \/ CompileClassVarDec
    \/ \E d \in SubroutineDecs : CompileSubroutine(d)
    \/ CompileReturn

Spec == Init /\ [][Next]_vars

-----------------------------------------------------------------------------
(* handle_file: the parser drained by `collect`, then the compiler         *)

\* ClassCompiler::compile as one step; res is "ok" for Ok(compiler.output)
RECURSIVE compile_class_var_decs(_, _), compile_subroutine_decs(_, _)
compile_class_var_decs(cc, class_var_decs) ==
    IF class_var_decs = << >> THEN cc
    ELSE compile_class_var_decs(compile_class_var_dec(cc, Head(class_var_decs)),
                                Tail(class_var_decs))

subroutine_compiled(sc) == [cc |-> extend_output(sc), res |-> sc.res]

compile_subroutine_decs(r, subroutine_decs) ==
    IF subroutine_decs = << >> \/ r.res # "ok" THEN r
    ELSE compile_subroutine_decs(
            subroutine_compiled(subroutine_compile(r.cc, Head(subroutine_decs))),
            Tail(subroutine_decs))

class_compiler_compile(cls) ==
    compile_subroutine_decs(
        [cc |-> compile_class_var_decs(new_class_compiler(cls), cls.class_var_decs),
         res |-> "ok"],
        cls.subroutine_decs)

\* a compile_class that keeps the instructions of the latest class only
compile_class_replacing(r, compiled) ==
    IF compiled.res = "ok"
    THEN [output |-> compiled.cc.output, res |-> "ok"]
    ELSE [output |-> r.output, res |-> compiled.res]

\* Compiler::compile_class: the class's instructions join the output
compile_class(r, compiled) ==
    IF compiled.res = "ok"
    THEN [output |-> r.output \o compiled.cc.output, res |-> "ok"]
    ELSE [output |-> r.output, res |-> compiled.res]

\* Compiler::compile: `unwrap` turns an Err into a panic
RECURSIVE compiler_compile(_, _)
compiler_compile(r, classes) ==
    IF r.res # "ok" THEN [r EXCEPT !.res = "panic"]
    ELSE IF classes = << >> THEN r
    ELSE compiler_compile(compile_class(r, class_compiler_compile(Head(classes))),
                          Tail(classes))

\* the token lists of the compilation units
Program1 ==
    << KW("class"), ID("Main"), SY("{"),
       KW("function"), KW("void"), ID("main"), SY("("), SY(")"), SY("{"),
       KW("do"), ID("Output"), SY("."), ID("printInt"), SY("("), INT(1), SY(")"), SY(";"),
       KW("return"), SY(";"),
       SY("}"), SY("}"), EOF >>

Head2 == << KW("class"), ID("Main"), SY("{"), KW("field"), KW("int"), ID("x"), SY(";") >>

First2 ==
    << KW("function"), KW("void"), ID("f"), SY("("), SY(")"), SY("{"),
       KW("return"), SY(";"), SY("}") >>

Second2 ==
    << KW("method"), KW("int"), ID("run"), SY("("), KW("int"), ID("a"), SY(")"), SY("{"),
       KW("var"), KW("int"), ID("y"), SY(";") >>

Statements2 ==
    << KW("let"), ID("y"), SY("="), ID("x"), SY("+"), ID("a"), SY(";"),
       KW("if"), SY("("), ID("y"), SY(")"), SY("{"),
           KW("let"), ID("x"), SY("="), ID("y"), SY(";"), SY("}"),
       KW("else"), SY("{"), KW("let"), ID("x"), SY("="), INT(0), SY(";"), SY("}"),
       KW("while"), SY("("), ID("x"), SY(")"), SY("{"),
           KW("let"), ID("x"), SY("="), ID("x"), SY("-"), INT(1), SY(";"), SY("}"),
       KW("return"), ID("y"), SY(";") >>

Program2 == Head2 \o First2 \o Second2 \o Statements2 \o << SY("}"), SY("}"), EOF >>

Head3 ==
    << KW("class"), ID("Main"), SY("{"), KW("static"), ID("Foo"), ID("x"), SY(","), ID("y"),
       SY(";"),
       KW("constructor"), ID("Main"), ID("new"), SY("("), SY(")"), SY("{") >>

Statements3 ==
    << KW("do"), ID("f"), SY("("), ID("x"), SY(","), INT(1), SY(")"), SY(";"),
       KW("let"), ID("x"), SY("["), INT(1), SY("]"), SY("="), SY("-"), ID("y"), SY(";"),
       KW("let"), ID("y"), SY("="), SY("("), ID("x"), SY(")"), SY(";"),
       KW("return"), KW("this"), SY(";") >>

Program3 == Head3 \o Statements3 \o << SY("}"), SY("}"), EOF >>

\* two classes in one unit:
\* class Main { function void f() { return; } } class Other { function void g() { return; } }
First4 ==
    << KW("class"), ID("Main"), SY("{"),
       KW("function"), KW("void"), ID("f"), SY("("), SY(")"), SY("{"),
       KW("return"), SY(";"), SY("}"), SY("}") >>

Second4 ==
    << KW("class"), ID("Other"), SY("{"),
       KW("function"), KW("void"), ID("g"), SY("("), SY(")"), SY("{") >>

Program4 == First4 \o Second4 \o << KW("return"), SY(";"), SY("}"), SY("}"), EOF >>

\* class variable declarations after a subroutine declaration:
\* class Main { field int x; function void f() { return; }
\*              field int y; static int z; function void g() { return; } }
Before5 == Head2 \o First2

Mixed5 ==
    << KW("field"), KW("int"), ID("y"), SY(";"),
       KW("static"), KW("int"), ID("z"), SY(";"),
       KW("function"), KW("void"), ID("g"), SY("("), SY(")"), SY("{") >>

Program5 == Before5 \o Mixed5 \o << KW("return"), SY(";"), SY("}"), SY("}"), EOF >>

\* an undeclared name: class Main { function void main() { let x = 1; return; } }
Head6 ==
    << KW("class"), ID("Main"), SY("{"),
       KW("function"), KW("void"), ID("main"), SY("("), SY(")"), SY("{") >>

Statements6 == << KW("let"), ID("x"), SY("="), INT(1), SY(";"), KW("return"), SY(";") >>

Program6 == Head6 \o Statements6 \o << SY("}"), SY("}"), EOF >>

Programs == << Program1, Program2, Program3, Program4, Program5, Program6 >>

\* where the statements of the last subroutine body of a program lie
StatementsRange(base) ==
    CASE base = 1 -> 10..19
      [] base = 2 -> (Len(Head2 \o First2 \o Second2) + 1)
                        ..Len(Head2 \o First2 \o Second2 \o Statements2)
      [] base = 3 -> (Len(Head3) + 1)..Len(Head3 \o Statements3)
      [] base = 4 -> (Len(First4 \o Second4) + 1)..(Len(First4 \o Second4) + 2)
      [] base = 5 -> (Len(Before5 \o Mixed5) + 1)..(Len(Before5 \o Mixed5) + 2)
      [] base = 6 -> (Len(Head6) + 1)..Len(Head6 \o Statements6)

\* the token list an input stands for: a program as it is, with one token
\* dropped, or cut after `at` tokens; the tokenizer ends every list with Eof
TokensOf(in) ==
    CASE in.mutation = "none" -> Programs[in.base]
      [] in.mutation = "drop" ->
            SubSeq(Programs[in.base], 1, in.at - 1)
                \o SubSeq(Programs[in.base], in.at + 1, Len(Programs[in.base]))
      [] in.mutation = "truncate" -> SubSeq(Programs[in.base], 1, in.at) \o << EOF >>

Inputs ==
    { [base |-> b, mutation |-> "none", at |-> 0] : b \in 1..Len(Programs) }
    \cup
    UNION { { [base |-> b, mutation |-> "truncate", at |-> i] :
                i \in 1..(Len(Programs[b]) - 2) } : b \in 1..Len(Programs) }
    \cup
    UNION { { [base |-> b, mutation |-> "drop", at |-> i] :
                i \in 1..(Len(Programs[b]) - 1) } : b \in 1..Len(Programs) }

InitParse ==
    /\ input \in Inputs
    /\ parser = new_parser(TokensOf(input))
    /\ nodes = << >>
    /\ instructions = << >>
    /\ pc = [i |-> 0, result |-> "parsing"]
    /\ class = [class_name |-> "", class_var_decs |-> << >>, subroutine_decs |-> << >>]
    /\ class_compiler = new_class_compiler(class)
    /\ subroutine_compiler = new_subroutine_compiler(class_compiler)
    /\ expr = [state |-> "idle"]
    /\ dir = NoDir
    /\ compiler = NoCompiler
    /\ asm = NoAsm

\* one `next()` of the parser under `collect`
ParserNext ==
    /\ pc.result = "parsing"
    /\ parser' = parse([parser EXCEPT !.res = "ok", !.stack = << >>])
    /\ nodes' = IF parser'.res = "ok" THEN Append(nodes, parser'.stack[1]) ELSE nodes
    /\ pc' = [i |-> pc.i + 1,
              result |-> CASE parser'.res = "ok" -> "parsing"
                           [] parser'.res = "none" -> "collected"
                           [] OTHER -> "panic"]
    /\ UNCHANGED <<class, class_compiler, subroutine_compiler, instructions, input, expr, dir, compiler, asm>>

\* `assert!(nodes.len() == 1)`
AssertOneNode ==
    /\ pc.result = "collected"
    /\ pc' = [pc EXCEPT !.result = IF Len(nodes) = 1 THEN "asserted" ELSE "panic"]
    /\ UNCHANGED <<class, class_compiler, subroutine_compiler, parser, nodes,
                   instructions, input, expr, dir, compiler, asm>>

\* `Compiler::new(nodes.iter()).compile()` and the lines written to the file
CompileNodes ==
    /\ pc.result = "asserted"
    /\ class' = nodes[1]
    /\ instructions' = compiler_compile([output |-> << >>, res |-> "ok"], nodes).output
    /\ pc' = [pc EXCEPT !.result =
                IF compiler_compile([output |-> << >>, res |-> "ok"], nodes).res = "ok"
                THEN "compiled" ELSE "panic"]
    /\ UNCHANGED <<class_compiler, subroutine_compiler, parser, nodes, input, expr, dir, compiler, asm>>

NextParse == ParserNext \/ AssertOneNode \/ CompileNodes

SpecParse == InitParse /\ [][NextParse]_vars

\* `collect` calls `next` until it yields None: weak fairness of ParserNext,
\* written out with the guard of ParserNext as its enabling condition
SpecParseFair ==
    /\ InitParse /\ [][NextParse]_vars
    /\ ([]<>(pc.result # "parsing") \/ []<><<ParserNext>>_vars)

-----------------------------------------------------------------------------
(* Parser::parse_expression applied to a token list                        *)

MaxLen == 5

ExprAlphabet == { ID("a"), ID("b"), ID("c"), SY("+"), SY("-"), SY("("), SY(")") }

\* the longest token list that starts with a term of every form
MaxTermLen == 4

TermAlphabet == { ID("a"), ID("b"), SY("["), SY("]"), SY("("), SY(")"), SY(".") }

ExprInputs ==
    UNION { [1..n -> ExprAlphabet] : n \in 1..MaxLen }
    \cup UNION { [1..n -> TermAlphabet] : n \in 1..MaxTermLen }

InitExpr ==
    /\ \E tokens \in ExprInputs :
          expr = [state |-> "ready", p |-> new_parser(tokens \o << EOF >>)]
    /\ parser = new_parser(<< >>)
    /\ nodes = << >>
    /\ instructions = << >>
    /\ input = [base |-> 0, mutation |-> "none", at |-> 0]
    /\ pc = [i |-> 0, result |-> "idle"]
    /\ dir = NoDir
    /\ compiler = NoCompiler
    /\ asm = NoAsm
    /\ class = [class_name |-> "", class_var_decs |-> << >>, subroutine_decs |-> << >>]
    /\ class_compiler = new_class_compiler(class)
    /\ subroutine_compiler = new_subroutine_compiler(class_compiler)

ParseExpression ==
    /\ expr.state = "ready"
    /\ expr' = [state |-> "done", p |-> parse_expression(expr.p)]
    /\ UNCHANGED <<class, class_compiler, subroutine_compiler, pc, parser, nodes,
                   instructions, input, dir, compiler, asm>>

\* a direct call of Parser::parse_term on the same parser
ParseTerm ==
    /\ expr.state = "ready"
    /\ expr' = [state |-> "term", p |-> parse_term(expr.p)]
    /\ UNCHANGED <<class, class_compiler, subroutine_compiler, pc, parser, nodes,
                   instructions, input, dir, compiler, asm>>

NextExpr == ParseExpression \/ ParseTerm

SpecExpr == InitExpr /\ [][NextExpr]_vars


-----------------------------------------------------------------------------
(* main on a directory: handle_file for every .jack entry                  *)

MaxFiles == 3

\* Parser::new(..).collect(): `next()` until it returns None
RECURSIVE collect_next(_, _)
collect(p, collected) ==
    collect_next(parse([p EXCEPT !.res = "ok", !.stack = << >>]), collected)

collect_next(q, collected) ==
    IF q.res = "ok" THEN collect(q, Append(collected, q.stack[1]))
    ELSE [res |-> q.res, nodes |-> collected]

\* handle_file from `let instructions = compiler.compile()` on
handle_compiled(r) ==
    IF r.res = "ok" THEN [res |-> "ok", written |-> TRUE]
    ELSE [res |-> "panic", written |-> FALSE]

\* handle_file from `assert!(nodes.len() == 1)` on
handle_collected(c) ==
    IF c.res = "panic" \/ Len(c.nodes) # 1
    THEN [res |-> "panic", written |-> FALSE]
    ELSE handle_compiled(compiler_compile([output |-> << >>, res |-> "ok"], c.nodes))

\* handle_file: the tokenizer collected; it panics on a string constant or a
\* block comment that is not closed, and `tokens?` returns its error
handle_file(entry) ==
    IF entry.tokenize = "panic" THEN [res |-> "panic", written |-> FALSE]
    ELSE IF entry.tokenize = "err" THEN [res |-> "err", written |-> FALSE]
    ELSE handle_collected(collect(new_parser(TokensOf(entry.input)), << >>))

\* a directory entry: a .jack file or another one, whether the tokenizer
\* accepts its text ("ok"), rejects it ("err") or panics, and its tokens
Entry(jack, tokenize, base, mutation, at) ==
    [jack |-> jack, tokenize |-> tokenize,
     input |-> [base |-> base, mutation |-> mutation, at |-> at]]

Entries ==
    { Entry(TRUE, "ok", 1, "none", 0),      \* compiles
      Entry(TRUE, "err", 1, "none", 0),     \* an unexpected character
      Entry(TRUE, "panic", 1, "none", 0),   \* a string constant never closed
      Entry(TRUE, "ok", 1, "drop", 1),      \* no class parsed
      Entry(TRUE, "ok", 4, "none", 0),      \* two classes
      Entry(TRUE, "ok", 6, "none", 0),      \* an undeclared name
      Entry(FALSE, "ok", 1, "none", 0) }    \* not a .jack file

InitDir ==
    /\ \E n \in 1..MaxFiles : \E entries \in [1..n -> Entries] :
          dir = [entries |-> entries, i |-> 0, written |-> {}, result |-> "running"]
    /\ parser = new_parser(<< >>)
    /\ nodes = << >>
    /\ instructions = << >>
    /\ input = [base |-> 0, mutation |-> "none", at |-> 0]
    /\ pc = [i |-> 0, result |-> "idle"]
    /\ class = [class_name |-> "", class_var_decs |-> << >>, subroutine_decs |-> << >>]
    /\ class_compiler = new_class_compiler(class)
    /\ subroutine_compiler = new_subroutine_compiler(class_compiler)
    /\ expr = [state |-> "idle"]
    /\ compiler = NoCompiler
    /\ asm = NoAsm

\* the loop body of main: `handle_file(..)?` for a .jack entry
entry_handled(d, r) ==
    [d EXCEPT !.i = @ + 1,
              !.written = IF r.written THEN @ \cup {d.i + 1} ELSE @,
              !.result = IF r.res = "ok" THEN "running" ELSE r.res]

HandleEntry ==
    /\ dir.result = "running"
    /\ dir.i < Len(dir.entries)
    /\ dir' = IF dir.entries[dir.i + 1].jack
              THEN entry_handled(dir, handle_file(dir.entries[dir.i + 1]))
              ELSE [dir EXCEPT !.i = @ + 1]
    /\ UNCHANGED <<class, class_compiler, subroutine_compiler, pc, parser, nodes,
                   instructions, input, expr, compiler, asm>>

\* `return Ok(())` after the loop
MainReturn ==
    /\ dir.result = "running"
    /\ dir.i = Len(dir.entries)
    /\ dir' = [dir EXCEPT !.result = "ok"]
    /\ UNCHANGED <<class, class_compiler, subroutine_compiler, pc, parser, nodes,
                   instructions, input, expr, compiler, asm>>

NextDir == HandleEntry \/ MainReturn

SpecDir == InitDir /\ [][NextDir]_vars

-----------------------------------------------------------------------------
(* Hack-assembler-rs/src/scanner.rs                                        *)
(* A source text is modelled as the sequence of its lexemes, each a run of *)
(* digits (with the number it denotes), a word or a single character;      *)
(* blanks, newlines and comments produce no token and are left out.        *)

AsmToken(token_type, number, lexeme) ==
    [token_type |-> token_type, number |-> number, lexeme |-> lexeme]

Digits(n)  == [chars |-> "digits", text |-> ToStr(n), number |-> n]
Word(w)    == [chars |-> "word", text |-> w, number |-> 0]
Char(c)    == [chars |-> "char", text |-> c, number |-> 0]

AsmKeywords == {"M", "D", "MD", "A", "AM", "AD", "AMD",
                "JGT", "JEQ", "JGE", "JLT", "JNE", "JLE", "JMP"}

get_keyword_or_identifier(lexeme) ==
    IF lexeme \in AsmKeywords THEN lexeme ELSE "IDENTIFIER"

\* `lexeme.parse::<u16>()`
token_number(lexeme) ==
    IF lexeme.number < 65536
    THEN [ok |-> TRUE, token |-> AsmToken("NUMBER", lexeme.number, lexeme.text)]
    ELSE [ok |-> FALSE, token |-> AsmToken("EOF", 0, "eof")]

single_character_type(c) ==
    CASE c = "(" -> "LEFT_PAREN"
      [] c = ")" -> "RIGHT_PAREN"
      [] c = "-" -> "MINUS"
      [] c = "+" -> "PLUS"
      [] c = "=" -> "EQUAL"
      [] c = "!" -> "BANG"
      [] c = "&" -> "AMPERSAND"
      [] c = "|" -> "BAR"
      [] c = "@" -> "AT"
      [] c = ";" -> "SEMICOLON"
      [] OTHER   -> "unexpected"

scan_token(lexeme) ==
    CASE lexeme.chars = "digits" -> token_number(lexeme)
      [] lexeme.chars = "word" ->
            [ok |-> TRUE,
             token |-> AsmToken(get_keyword_or_identifier(lexeme.text), 0, lexeme.text)]
      [] lexeme.chars = "char" ->
            [ok |-> single_character_type(lexeme.text) # "unexpected",
             token |-> AsmToken(single_character_type(lexeme.text), 0, lexeme.text)]

\* `Scanner::new(&source).into_iter().collect::<Result<Vec<_>, _>>()`: the
\* tokens up to the first error, then the EOF token
RECURSIVE scan(_, _)
scan(source, tokens) ==
    IF source = << >>
    THEN [ok |-> TRUE, tokens |-> Append(tokens, AsmToken("EOF", 0, "eof"))]
    ELSE IF ~scan_token(Head(source)).ok THEN [ok |-> FALSE, tokens |-> tokens]
    ELSE scan(Tail(source), Append(tokens, scan_token(Head(source)).token))

-----------------------------------------------------------------------------
(* Hack-assembler-rs/src/parser.rs                                         *)
(* A parser value p holds the token vector and the position of the         *)
(* Peekable iterator; res is "ok", "err" (an Err is being returned) or     *)
(* "panic".  A production returns the parser and what it built.            *)

asm_new_parser(tokens) == [tokens |-> tokens, pos |-> 1, res |-> "ok"]

asm_peek_some(p) == p.pos <= Len(p.tokens)

asm_peek(p) == p.tokens[p.pos]

\* peek_matches!: NUMBER1 stands for the pattern TokenType::NUMBER(1)
asm_matches(token, patterns) ==
    \/ token.token_type \in patterns
    \/ "NUMBER1" \in patterns /\ token.token_type = "NUMBER" /\ token.number = 1

asm_peek_matches(p, patterns) ==
    asm_peek_some(p) /\ asm_matches(asm_peek(p), patterns)

\* consume!: the next token, or an Err when the list is empty
asm_consume(p) ==
    IF p.res # "ok" THEN p
    ELSE IF asm_peek_some(p) THEN [p EXCEPT !.pos = @ + 1]
    ELSE [p EXCEPT !.res = "err"]

\* consume_and_ensure_matches!: the token is taken also when it does not match
asm_consume_and_ensure_matches(p, patterns) ==
    IF p.res # "ok" THEN p
    ELSE IF asm_peek_matches(p, patterns) THEN [p EXCEPT !.pos = @ + 1]
    ELSE IF asm_peek_some(p) THEN [p EXCEPT !.pos = @ + 1, !.res = "err"]
    ELSE [p EXCEPT !.res = "err"]

\* the token the last consume of p took
asm_consumed(p) == p.tokens[p.pos - 1]

AsmLabel(name) == [node |-> "Label", name |-> name]

AInstruction(token) == [node |-> "A", token |-> token]

NoAsmToken == AsmToken("none", 0, "")

CInstruction(dest, comp, jump) ==
    [node |-> "C", dest |-> dest, comp |-> comp, jump |-> jump]

asm_parse_label(p) ==
    LET s1 == asm_consume_and_ensure_matches(p, {"LEFT_PAREN"})
        s2 == asm_consume_and_ensure_matches(s1, {"IDENTIFIER"})
        s3 == asm_consume_and_ensure_matches(s2, {"RIGHT_PAREN"})
    IN  [p |-> s3,
         node |-> IF s3.res = "ok" THEN AsmLabel(asm_consumed(s2)) ELSE AsmLabel(NoAsmToken)]

asm_parse_a_instruction(p) ==
    LET s1 == asm_consume_and_ensure_matches(p, {"AT"})
        s2 == asm_consume_and_ensure_matches(s1, {"IDENTIFIER", "NUMBER"})
    IN  [p |-> s2,
         node |-> IF s2.res = "ok" THEN AInstruction(asm_consumed(s2))
                  ELSE AInstruction(NoAsmToken)]

Registers == {"A", "D", "M"}

\* should_consume_more_for_comp, once it has decided to take one more token
\* matching `patterns` and to answer `more`
comp_take(c, patterns, more) ==
    LET s == asm_consume_and_ensure_matches(c.p, patterns)
    IN  IF s.res # "ok" THEN [c EXCEPT !.p = s]
        ELSE [c EXCEPT !.p = s,
                       !.consumed_tokens = Append(@, asm_consumed(s)),
                       !.state = IF more THEN "ConsumingComp" ELSE "FinishConsumingComp"]

\* `consumed_tokens.push(consume!(tokens)?)`: an Err when no token is left
push_consumed(c) ==
    IF asm_peek_some(c.p)
    THEN [c EXCEPT !.p = asm_consume(c.p),
                   !.consumed_tokens = Append(@, asm_peek(c.p))]
    ELSE [c EXCEPT !.p = asm_consume(c.p)]

\* should_consume_more_for_comp and the state change of its caller
should_consume_more_for_comp(c) ==
    LET n    == Len(c.consumed_tokens)
        prev == c.consumed_tokens[n]
    IN  IF n = 0
        THEN push_consumed(c)
        ELSE IF prev.token_type = "BANG" /\ n = 1
        THEN comp_take(c, Registers, FALSE)
        ELSE IF prev.token_type = "MINUS" /\ n = 1
        THEN comp_take(c, Registers \cup {"NUMBER1"}, FALSE)
        ELSE IF prev.token_type \in {"MINUS", "PLUS"} /\ n = 2
        THEN comp_take(c, Registers \cup {"NUMBER1"}, FALSE)
        ELSE IF prev.token_type \in {"AMPERSAND", "BAR"} /\ n = 2
        THEN comp_take(c, {"A", "M"}, FALSE)
        ELSE IF prev.token_type \in Registers /\ n = 1
                /\ asm_peek_matches(c.p, {"PLUS", "MINUS", "AMPERSAND", "BAR"})
        THEN comp_take(c, {"PLUS", "MINUS", "AMPERSAND", "BAR"}, TRUE)
        ELSE [c EXCEPT !.state = "FinishConsumingComp"]

\* `=` has been consumed: `assert!(consumed_tokens.len() == 1)`, dest taken
c_equal(c) ==
    IF Len(c.consumed_tokens) # 1
    THEN [c EXCEPT !.p = [asm_consume(c.p) EXCEPT !.res = "panic"]]
    ELSE [c EXCEPT !.p = asm_consume(c.p),
                   !.dest = c.consumed_tokens[1],
                   !.consumed_tokens = << >>,
                   !.state = "ConsumingComp"]

\* `;` has been consumed
c_semicolon(c) ==
    [c EXCEPT !.p = asm_consume(c.p),
              !.comp = c.consumed_tokens,
              !.consumed_tokens = << >>,
              !.state = "ConsumingJump"]

\* the `match state` of the parsing loop
c_by_state(c) ==
    CASE c.state = "Initial" -> push_consumed(c)
      [] c.state = "ConsumingComp" -> should_consume_more_for_comp(c)
      [] c.state = "FinishConsumingComp" ->
            [c EXCEPT !.comp = c.consumed_tokens, !.state = "done"]
      [] c.state = "ConsumingJump" ->
            IF c.consumed_tokens # << >> THEN [c EXCEPT !.p.res = "panic"]
            ELSE IF asm_peek_some(c.p)
            THEN [c EXCEPT !.p = asm_consume(c.p), !.jump = asm_peek(c.p),
                           !.state = "done"]
            ELSE [c EXCEPT !.p = asm_consume(c.p)]

\* 'parsing_loop of parse_c_instruction; with no token left every peek
\* fails to match and `match state` decides
RECURSIVE parsing_loop(_)
parsing_loop(c) ==
    IF c.p.res # "ok" \/ c.state = "done" THEN c
    ELSE IF asm_peek_matches(c.p, {"EOF"})
    THEN [c EXCEPT !.comp = c.consumed_tokens, !.state = "done"]
    ELSE IF asm_peek_matches(c.p, {"EQUAL"}) THEN parsing_loop(c_equal(c))
    ELSE IF asm_peek_matches(c.p, {"SEMICOLON"}) THEN parsing_loop(c_semicolon(c))
    ELSE parsing_loop(c_by_state(c))

c_instruction_parsed(c) ==
    [p |-> c.p, node |-> CInstruction(c.dest, c.comp, c.jump)]

asm_parse_c_instruction(p) ==
    c_instruction_parsed(
        parsing_loop([p |-> p, state |-> "Initial", consumed_tokens |-> << >>,
                      dest |-> NoAsmToken, comp |-> << >>, jump |-> NoAsmToken]))

\* Parser::parse: kind is "none", "node", "err" or "panic"
asm_parsed(r) ==
    [p |-> r.p, node |-> r.node,
     kind |-> IF r.p.res = "ok" THEN "node" ELSE r.p.res]

asm_parse(p) ==
    IF ~asm_peek_some(p)
    THEN [p |-> p, node |-> AsmLabel(NoAsmToken), kind |-> "panic"]
    ELSE IF asm_peek_matches(p, {"EOF"})
    THEN [p |-> p, node |-> AsmLabel(NoAsmToken), kind |-> "none"]
    ELSE IF asm_peek_matches(p, {"LEFT_PAREN"}) THEN asm_parsed(asm_parse_label(p))
    ELSE IF asm_peek_matches(p, {"AT"}) THEN asm_parsed(asm_parse_a_instruction(p))
    ELSE asm_parsed(asm_parse_c_instruction(p))

-----------------------------------------------------------------------------
(* Hack-assembler-rs/src/preprocessor.rs                                   *)
(* A symbol table is a function from names to addresses (u16).  A        *)
(* preprocessor value carries res, "ok" or "panic".  overflow_checks tells *)
(* how the program was built: with them (the dev profile) an addition that *)
(* overflows a u16 panics, without them (--release) it wraps around.       *)

symbol_insert(symbol_table, key, value) ==
    [k \in DOMAIN symbol_table \cup {key} |->
        IF k = key THEN value ELSE symbol_table[k]]

PredefinedSymbols ==
    { <<"R" \o ToStr(r), r>> : r \in 0..15 }
    \cup { <<"SP", 0>>, <<"LCL", 1>>, <<"ARG", 2>>, <<"THIS", 3>>, <<"THAT", 4>> }
    \cup { <<"SCREEN", 16384>>, <<"KBD", 24576>> }

init_static_symbols(asm_nodes) ==
    [nodes |-> asm_nodes,
     symbol_table |-> [k \in { e[1] : e \in PredefinedSymbols } |->
                          (CHOOSE e \in PredefinedSymbols : e[1] = k)[2]],
     next_free_memory_address |-> 16,
     res |-> "ok"]

\* the fold of extract_label_symbols: `len as Address` is the number of
\* instructions kept so far
RECURSIVE extract_label_symbols(_, _)
extract_label_symbols(pre, rest) ==
    IF rest = << >> THEN pre
    ELSE IF Head(rest).node = "Label"
    THEN extract_label_symbols(
            [pre EXCEPT !.symbol_table =
                symbol_insert(@, Head(rest).name.lexeme, Len(pre.nodes) % 65536)],
            Tail(rest))
    ELSE extract_label_symbols([pre EXCEPT !.nodes = Append(@, Head(rest))],
                               Tail(rest))

is_symbol(node) == node.node = "A" /\ node.token.token_type = "IDENTIFIER"

\* `*next_free_memory_address += 1` on a u16
next_address(pre, overflow_checks) ==
    IF pre.next_free_memory_address = 65535 /\ overflow_checks
    THEN [pre EXCEPT !.res = "panic"]
    ELSE [pre EXCEPT !.next_free_memory_address = (@ + 1) % 65536]

RECURSIVE extract_variable_symbols(_, _, _)
extract_variable_symbols(pre, rest, overflow_checks) ==
    IF rest = << >> \/ pre.res # "ok" THEN pre
    ELSE IF is_symbol(Head(rest))
            /\ Head(rest).token.lexeme \notin DOMAIN pre.symbol_table
    THEN extract_variable_symbols(
            next_address(
                [pre EXCEPT !.symbol_table =
                                symbol_insert(@, Head(rest).token.lexeme,
                                              pre.next_free_memory_address)],
                overflow_checks),
            Tail(rest), overflow_checks)
    ELSE extract_variable_symbols(pre, Tail(rest), overflow_checks)

labels_extracted(pre, overflow_checks) ==
    extract_variable_symbols(pre, pre.nodes, overflow_checks)

\* one pass too early: the variables are numbered before the labels are known
extract_source_symbols_variables_first(pre, overflow_checks) ==
    extract_label_symbols(
        [extract_variable_symbols(pre, pre.nodes, overflow_checks) EXCEPT !.nodes = << >>],
        pre.nodes)

extract_source_symbols(pre, overflow_checks) ==
    labels_extracted(extract_label_symbols([pre EXCEPT !.nodes = << >>], pre.nodes),
                     overflow_checks)

\* the closure of replace_source_symbols
replace_symbol(symbol_table, node) ==
    IF is_symbol(node)
    THEN AInstruction(AsmToken("NUMBER", symbol_table[node.token.lexeme],
                               ToStr(symbol_table[node.token.lexeme])))
    ELSE node

replace_source_symbols(pre) ==
    [k \in 1..Len(pre.nodes) |-> replace_symbol(pre.symbol_table, pre.nodes[k])]

-----------------------------------------------------------------------------
(* Hack-assembler-rs/src/assembler.rs                                      *)
(* A result is [ok, value]: ok is FALSE when the code panics (assert!,     *)
(* unreachable!).                                                          *)

\* how a token appears in the patterns of the match arms
Pattern(token) ==
    IF token.token_type = "NUMBER"
    THEN (IF token.number < 2 THEN "NUMBER(" \o ToStr(token.number) \o ")" ELSE "NUMBER(_)")
    ELSE token.token_type

Patterns(tokens) == [k \in 1..Len(tokens) |-> Pattern(tokens[k])]

JumpCodes ==
    { <<"NUMBER(0)", 0>>, <<"JGT", 1>>, <<"JEQ", 2>>, <<"JGE", 3>>, <<"JLT", 4>>,
      <<"JNE", 5>>, <<"JLE", 6>>, <<"JMP", 7>> }

DestCodes ==
    { <<"NUMBER(0)", 0>>, <<"M", 1>>, <<"D", 2>>, <<"MD", 3>>, <<"A", 4>>,
      <<"AM", 5>>, <<"AD", 6>>, <<"AMD", 7>> }

CompCodes ==
    { << <<"NUMBER(0)">>, 42>>, << <<"NUMBER(1)">>, 63>>,
      << <<"MINUS", "NUMBER(1)">>, 58>>,
      << <<"D">>, 12>>, << <<"A">>, 48>>,
      << <<"BANG", "D">>, 13>>, << <<"BANG", "A">>, 49>>,
      << <<"MINUS", "D">>, 15>>, << <<"MINUS", "A">>, 51>>,
      << <<"D", "PLUS", "NUMBER(1)">>, 31>>, << <<"A", "PLUS", "NUMBER(1)">>, 55>>,
      << <<"D", "MINUS", "NUMBER(1)">>, 14>>, << <<"A", "MINUS", "NUMBER(1)">>, 50>>,
      << <<"D", "PLUS", "A">>, 2>>, << <<"D", "MINUS", "A">>, 19>>,
      << <<"A", "MINUS", "D">>, 7>>,
      << <<"D", "AMPERSAND", "A">>, 0>>, << <<"D", "BAR", "A">>, 21>>,
      << <<"M">>, 112>>, << <<"BANG", "M">>, 113>>, << <<"MINUS", "M">>, 115>>,
      << <<"M", "PLUS", "NUMBER(1)">>, 119>>, << <<"M", "MINUS", "NUMBER(1)">>, 114>>,
      << <<"D", "PLUS", "M">>, 66>>, << <<"D", "MINUS", "M">>, 83>>,
      << <<"M", "MINUS", "D">>, 71>>,
      << <<"D", "AMPERSAND", "M">>, 64>>, << <<"D", "BAR", "M">>, 85>> }

\* a `match` over a table of arms, `_ => unreachable!(..)` otherwise
match_code(codes, pattern) ==
    IF \E e \in codes : e[1] = pattern
    THEN [ok |-> TRUE, value |-> (CHOOSE e \in codes : e[1] = pattern)[2]]
    ELSE [ok |-> FALSE, value |-> 0]

assemble_jump(token) == match_code(JumpCodes, Pattern(token))

assemble_dest(token) == match_code(DestCodes, Pattern(token))

assemble_comp(tokens) == match_code(CompCodes, Patterns(tokens))

\* `if let Some(token) = ..`: an absent dest or jump leaves the bits zero
if_some(token, code) ==
    IF token = NoAsmToken THEN [ok |-> TRUE, value |-> 0] ELSE code

assemble_c(jump, dest, comp) ==
    [ok |-> jump.ok /\ dest.ok /\ comp.ok,
     value |-> 57344 + jump.value + dest.value * 8 + comp.value * 64]

assemble_instruction(instruction) ==
    IF instruction.node = "A"
    THEN IF instruction.token.token_type # "NUMBER" THEN [ok |-> FALSE, value |-> 0]
         ELSE [ok |-> instruction.token.number \div 32768 = 0,
               value |-> instruction.token.number]
    ELSE assemble_c(if_some(instruction.jump, assemble_jump(instruction.jump)),
                    if_some(instruction.dest, assemble_dest(instruction.dest)),
                    assemble_comp(instruction.comp))

\* Assembler::assemble: the words up to the first panic
RECURSIVE assemble(_, _)
assemble(rest, words) ==
    IF rest = << >> THEN [ok |-> TRUE, words |-> words]
    ELSE IF ~assemble_instruction(Head(rest)).ok THEN [ok |-> FALSE, words |-> words]
    ELSE assemble(Tail(rest), Append(words, assemble_instruction(Head(rest)).value))

-----------------------------------------------------------------------------
(* The assembler's main: scan, parse, preprocess, assemble                 *)

\* the largest number of lines of a program of symbols
MaxAsmLines == 3

\* the lexeme a pattern of the comp table is written as
LexemeOf(pattern) ==
    CASE pattern = "NUMBER(0)" -> Digits(0)
      [] pattern = "NUMBER(1)" -> Digits(1)
      [] pattern = "MINUS"     -> Char("-")
      [] pattern = "PLUS"      -> Char("+")
      [] pattern = "BANG"      -> Char("!")
      [] pattern = "AMPERSAND" -> Char("&")
      [] pattern = "BAR"       -> Char("|")
      [] OTHER                 -> Word(pattern)

\* the comp mnemonics of the Hack comp table
CompMnemonics ==
    { [k \in 1..Len(e[1]) |-> LexemeOf(e[1][k])] : e \in CompCodes }

\* what follows a comp: nothing, a jump, or the next instruction
Followers ==
    { << >>,
      << Char(";"), Word("JMP") >>,
      << Char("@"), Digits(5) >>,
      << Char("("), Word("LOOP"), Char(")") >>,
      << Word("M"), Char("="), Word("D") >>,
      << Digits(0), Char(";"), Word("JMP") >>,
      << Char("!"), Word("D"), Char(";"), Word("JEQ") >>,
      << Char("-"), Word("D"), Char(";"), Word("JLT") >> }

\* `dest=comp` and what follows it
CompDests == {Word("D"), Word("AM")}

CompSources ==
    { << d, Char("=") >> \o c \o f :
        d \in CompDests, c \in CompMnemonics, f \in Followers }

\* the lines of the programs of symbols and numbers
AsmLines ==
    { << Char("@"), Word("i") >>,
      << Char("@"), Word("j") >>,
      << Char("@"), Word("LOOP") >>,
      << Char("@"), Word("END") >>,
      << Char("@"), Word("R1") >>,
      << Char("@"), Word("KBD") >>,
      << Char("("), Word("LOOP"), Char(")") >>,
      << Char("("), Word("END"), Char(")") >>,
      << Char("("), Word("R1"), Char(")") >>,
      << Word("D"), Char("="), Word("M") >>,
      << Char("@"), Digits(32767) >>,
      << Char("@"), Digits(32768) >> }

RECURSIVE Flatten(_)
Flatten(lines) == IF lines = << >> THEN << >> ELSE Head(lines) \o Flatten(Tail(lines))

SymbolSources ==
    { Flatten(lines) : lines \in UNION { [1..n -> AsmLines] : n \in 1..MaxAsmLines } }

\* numbers at the edges of u16, and a character the scanner rejects
EdgeSources ==
    { << Char("@"), Digits(65535) >>, << Char("@"), Digits(65536) >>,
      << Char("@"), Digits(0), Char("#") >>, << Char("@"), Word("D") >>,
      << Char("="), Word("D") >>, << Word("D"), Char("="), Char("+") >> }

AsmSources == CompSources \cup SymbolSources \cup EdgeSources

\* main: the source scanned (`tokens?`) and Parser::new
asm_scanned(source, scanned, overflow_checks) ==
    [stage |-> IF scanned.ok THEN "parsing" ELSE "err",
     source |-> source,
     overflow_checks |-> overflow_checks,
     parser |-> asm_new_parser(scanned.tokens),
     nodes  |-> << >>,
     symbol_table |-> << >>,
     next_free_memory_address |-> 0,
     words  |-> << >>]

InitAsm ==
    /\ \E source \in AsmSources : \E overflow_checks \in BOOLEAN :
          asm = asm_scanned(source, scan(source, << >>), overflow_checks)
    /\ dir = NoDir
    /\ compiler = NoCompiler
    /\ parser = new_parser(<< >>)
    /\ nodes = << >>
    /\ instructions = << >>
    /\ input = [base |-> 0, mutation |-> "none", at |-> 0]
    /\ pc = [i |-> 0, result |-> "idle"]
    /\ class = [class_name |-> "", class_var_decs |-> << >>, subroutine_decs |-> << >>]
    /\ class_compiler = new_class_compiler(class)
    /\ subroutine_compiler = new_subroutine_compiler(class_compiler)
    /\ expr = [state |-> "idle"]

\* one `next` of the parser under `collect::<Result<Vec<_>, _>>()`, and `nodes?`
asm_collected(a, r) ==
    [a EXCEPT !.parser = r.p,
              !.nodes = IF r.kind = "node" THEN Append(@, r.node) ELSE @,
              !.stage = CASE r.kind = "node"  -> "parsing"
                          [] r.kind = "none"  -> "parsed"
                          [] r.kind = "err"   -> "err"
                          [] r.kind = "panic" -> "panic"]

AsmParserNext ==
    /\ asm.stage = "parsing"
    /\ asm' = asm_collected(asm, asm_parse(asm.parser))
    /\ UNCHANGED <<class, class_compiler, subroutine_compiler, pc, parser, nodes,
                   instructions, input, expr, dir, compiler>>

\* Preprocessor::init_static_symbols(nodes).extract_source_symbols()
asm_extracted(a, pre) ==
    [a EXCEPT !.stage = IF pre.res = "ok" THEN "extracted" ELSE "panic",
              !.nodes = pre.nodes,
              !.symbol_table = pre.symbol_table,
              !.next_free_memory_address = pre.next_free_memory_address]

AsmExtractSymbols ==
    /\ asm.stage = "parsed"
    /\ asm' = asm_extracted(asm, extract_source_symbols(init_static_symbols(asm.nodes),
                                                        asm.overflow_checks))
    /\ UNCHANGED <<class, class_compiler, subroutine_compiler, pc, parser, nodes,
                   instructions, input, expr, dir, compiler>>

\* preprocessor.replace_source_symbols()
AsmReplaceSymbols ==
    /\ asm.stage = "extracted"
    /\ asm' = [asm EXCEPT !.stage = "replaced", !.nodes = replace_source_symbols(asm)]
    /\ UNCHANGED <<class, class_compiler, subroutine_compiler, pc, parser, nodes,
                   instructions, input, expr, dir, compiler>>

\* Assembler::new(nodes).assemble()
asm_assembled(a, r) ==
    [a EXCEPT !.stage = IF r.ok THEN "assembled" ELSE "panic", !.words = r.words]

AsmAssemble ==
    /\ asm.stage = "replaced"
    /\ asm' = asm_assembled(asm, assemble(asm.nodes, << >>))
    /\ UNCHANGED <<class, class_compiler, subroutine_compiler, pc, parser, nodes,
                   instructions, input, expr, dir, compiler>>

NextAsm == AsmParserNext \/ AsmExtractSymbols \/ AsmReplaceSymbols \/ AsmAssemble

SpecAsm == InitAsm /\ [][NextAsm]_vars

-----------------------------------------------------------------------------
(* A Compiler that is asked to compile more than once                      *)

\* how often `compile` is called on one Compiler
MaxCalls == 3

CompilerDecs ==
    { SubroutineDec("Function", "main", << <<TypeInt, "x">> >>,
                    << VarDec(TypeInt, <<"y">>) >>, b) : b \in Bodies }

CompilerClasses ==
    { [class_name |-> n, class_var_decs |-> d, subroutine_decs |-> s] :
        n \in {"Main", "Foo"},
        d \in { << >>, << ClassVarDec("Field", TypeInt, <<"x">>) >> },
        s \in { << >> } \cup { << dec >> : dec \in CompilerDecs } }

CompilerNodes == UNION { [1..n -> CompilerClasses] : n \in 0..2 }

\* Compiler::new
new_compiler(classes) == [nodes |-> classes, output |-> << >>, calls |-> 0, res |-> "ok"]

InitCompiler ==
    /\ \E classes \in CompilerNodes : compiler = new_compiler(classes)
    /\ instructions = << >>
    /\ asm = NoAsm
    /\ dir = NoDir
    /\ parser = new_parser(<< >>)
    /\ nodes = << >>
    /\ input = [base |-> 0, mutation |-> "none", at |-> 0]
    /\ pc = [i |-> 0, result |-> "idle"]
    /\ class = [class_name |-> "", class_var_decs |-> << >>, subroutine_decs |-> << >>]
    /\ class_compiler = new_class_compiler(class)
    /\ subroutine_compiler = new_subroutine_compiler(class_compiler)
    /\ expr = [state |-> "idle"]

\* the Compiler after a call of compile that ended as r: `self.output` is
\* what the loop left in it
compiler_called(c, r) ==
    [c EXCEPT !.output = r.output, !.calls = @ + 1, !.res = r.res]

\* `return self.output.clone()`, unless the call panicked
compile_returned(r, returned) == IF r.res = "ok" THEN r.output ELSE returned

\* Compiler::compile on the retained output: `self.nodes.clone()`, the loop
CompilerCompile ==
    /\ compiler.res = "ok"
    /\ compiler.calls < MaxCalls
    /\ compiler' = compiler_called(compiler,
            compiler_compile([output |-> compiler.output, res |-> "ok"], compiler.nodes))
    /\ instructions' = compile_returned(compiler', instructions)
    /\ UNCHANGED <<class, class_compiler, subroutine_compiler, pc, parser, nodes,
                   input, expr, dir, asm>>

NextCompiler == CompilerCompile

SpecCompiler == InitCompiler /\ [][NextCompiler]_vars

-----------------------------------------------------------------------------
(* Vocabulary of the properties                                            *)

Names == {"x", "y", "z", "this"}

\* a subroutine has been compiled and its SubroutineCompiler did not fail
Compiled == Len(class.subroutine_decs) > 0 /\ subroutine_compiler.res = "ok"

LastDec == Last(class.subroutine_decs)

\* the line is the instruction `text`, indented or not
IsInstr(line, text) == line = text \/ line = "    " \o text

FieldTable  == subroutine_compiler.class_compiler.symbol_table.field_table
StaticTable == subroutine_compiler.class_compiler.symbol_table.static_table
ArgTable    == subroutine_compiler.symbol_table.argument_table
VarTable    == subroutine_compiler.symbol_table.var_table

\* the location the lookup order of the specification gives a name:
\* fields, then locals, then arguments, then statics
SpecSegment(n) ==
    CASE n \in DOMAIN FieldTable  -> "this"
      [] n \notin DOMAIN FieldTable /\ n \in DOMAIN VarTable -> "local"
      [] n \notin DOMAIN FieldTable /\ n \notin DOMAIN VarTable
           /\ n \in DOMAIN ArgTable -> "argument"
      [] n \notin DOMAIN FieldTable /\ n \notin DOMAIN VarTable
           /\ n \notin DOMAIN ArgTable /\ n \in DOMAIN StaticTable -> "static"
      [] OTHER -> "none"

SpecIndex(n) ==
    CASE SpecSegment(n) = "this"     -> FieldTable[n].index
      [] SpecSegment(n) = "local"    -> VarTable[n].index
      [] SpecSegment(n) = "argument" -> ArgTable[n].index
      [] SpecSegment(n) = "static"   -> StaticTable[n].index
      [] OTHER -> 0

SpecLocation(n) == SpecSegment(n) \o " " \o ToStr(SpecIndex(n))

\* number of lines the prologue of a subroutine kind takes, header included
PrologueLen(kind) ==
    CASE kind = "Constructor" -> 4 [] kind = "Method" -> 3 [] OTHER -> 1

\* the output of the last subroutine when only its first n statements are compiled
OutputUpTo(n) ==
    subroutine_compile(
        [class_compiler EXCEPT !.output = << >>],
        [LastDec EXCEPT !.subroutine_body.statements = SubSeq(@, 1, n)]).output

\* the code of an expression under the tables of the last subroutine
ExprCode(e) ==
    compile_expression([subroutine_compiler EXCEPT !.output = << >>, !.pad = "One"],
                       e).output

Occurrences(seq, line) == Cardinality({i \in 1..Len(seq) : seq[i] = line})

(* C1: search_var probes class fields, then subroutine locals, then        *)
(* arguments, then statics, and returns the first hit's segment and index; *)
(* a name that is both a field and a local or argument resolves to `this`  *)
(* with the field's index.  Checked on the lookup itself and on the code   *)
(* emitted for `let x = y;` as first statement of a subroutine.            *)
C1_SearchOrder ==
    /\ \A n \in Names :
          LET r == search_var(subroutine_compiler, n)
          IN  /\ r.ok <=> SpecSegment(n) # "none"
              /\ r.ok => r.segment = SpecSegment(n) /\ r.index = SpecIndex(n)
    /\ (Compiled /\ LastDec.subroutine_body.statements = BodyUse) =>
          LET out == subroutine_compiler.output
              k   == PrologueLen(LastDec.subroutine_dec_type)
          IN  /\ out[k + 1] = "    push " \o SpecLocation("y")
              /\ out[k + 2] = "    pop " \o SpecLocation("x")

C1_Witness ==
    /\ Compiled
    /\ LastDec.subroutine_body.statements = BodyUse
    /\ "x" \in DOMAIN FieldTable
    /\ "x" \in DOMAIN VarTable \cup DOMAIN ArgTable
    /\ subroutine_compiler.output[PrologueLen(LastDec.subroutine_dec_type) + 2]
          = "    pop this " \o ToStr(FieldTable["x"].index)


\* the names a list of declarations declares, in declaration order
RECURSIVE DeclaredNames(_, _)
DeclaredNames(class_var_decs, kind) ==
    IF class_var_decs = << >> THEN << >>
    ELSE (IF Head(class_var_decs).class_var_dec_kind = kind
          THEN Head(class_var_decs).var_names ELSE << >>)
         \o DeclaredNames(Tail(class_var_decs), kind)

DeclaredFields == DeclaredNames(SubSeq(class.class_var_decs, 1, pc.i), "Field")
DeclaredStatics == DeclaredNames(SubSeq(class.class_var_decs, 1, pc.i), "Static")

FirstPos(seq, n) == CHOOSE i \in 1..Len(seq) : seq[i] = n /\ \A j \in 1..(i - 1) : seq[j] # n

\* the index the i-th insert of a sequence of inserts hands out
RECURSIVE Inserted(_)
Inserted(names) ==
    IF names = << >> THEN EmptyTable
    ELSE table_insert(Inserted(SubSeq(names, 1, Len(names) - 1)), Last(names), TypeInt)

AssignedIndex(names, i) == Inserted(SubSeq(names, 1, i))[names[i]].index

\* what the specification says of a kind-namespace after the inserts `names`
WellIndexed(table, names) ==
    /\ DOMAIN table = {names[i] : i \in 1..Len(names)}
    /\ \A a, b \in DOMAIN table : a # b => table[a].index # table[b].index
    /\ {table[a].index : a \in DOMAIN table} = 0..(Cardinality(DOMAIN table) - 1)
    /\ \A a, b \in DOMAIN table :
          FirstPos(names, a) < FirstPos(names, b) => table[a].index < table[b].index
    /\ \A i, j \in 1..Len(names) :
          names[i] # names[j] => AssignedIndex(names, i) # AssignedIndex(names, j)

(* C10: after any sequence of inserts into one kind-namespace, re-declared *)
(* names included, the indices of the namespace are pairwise distinct,     *)
(* dense from 0 and in declaration order, and an index once assigned is    *)
(* never assigned to a different name.  Stated of the field and static     *)
(* tables of the class compiler; the code breaks it on `field int x, x`.   *)
C10_DenseDistinctIndices ==
    /\ WellIndexed(class_compiler.symbol_table.field_table, DeclaredFields)
    /\ WellIndexed(class_compiler.symbol_table.static_table, DeclaredStatics)

(* C2: a constructor's code starts, right after its `function` header,     *)
(* with `push constant <fieldCount>`, `call Memory.alloc 1`,               *)
(* `pop pointer 0`, fieldCount being the number of fields the class        *)
(* declares.  The code breaks it when a field name is declared twice.      *)
C2_ConstructorAllocatesFields ==
    (Compiled /\ LastDec.subroutine_dec_type = "Constructor") =>
        LET out == subroutine_compiler.output
        IN  /\ Len(out) >= 4
            /\ out[1] = function_header(class.class_name, LastDec)
            /\ IsInstr(out[2], "push constant " \o ToStr(Len(DeclaredFields)))
            /\ IsInstr(out[3], "call Memory.alloc 1")
            /\ IsInstr(out[4], "pop pointer 0")

(* C3: a method's first two instructions after the header are              *)
(* `push argument 0`, `pop pointer 0` and its k-th declared parameter is   *)
(* argument k; in a function or constructor the k-th declared parameter is *)
(* argument k-1.  The code breaks it when a parameter name is repeated.    *)
C3_ParameterNumbering ==
    Compiled =>
        LET out == subroutine_compiler.output
            params == LastDec.parameter_list
            first == IF LastDec.subroutine_dec_type = "Method" THEN 1 ELSE 0
        IN  /\ LastDec.subroutine_dec_type = "Method" =>
                  /\ Len(out) >= 3
                  /\ IsInstr(out[2], "push argument 0")
                  /\ IsInstr(out[3], "pop pointer 0")
            /\ \A k \in 1..Len(params) :
                  /\ params[k][2] \in DOMAIN ArgTable
                  /\ ArgTable[params[k][2]].index = k - 1 + first


\* the number of if and while statements of a statement list, nested ones included
RECURSIVE Constructs(_)
Constructs(statements) ==
    IF statements = << >> THEN 0
    ELSE LET st == Head(statements)
         IN  (CASE st.tag = "IfStatement" ->
                     1 + Constructs(st.then_branch)
                       + (IF st.else_branch = << >> THEN 0 ELSE Constructs(st.else_branch[1]))
                [] st.tag = "WhileStatement" -> 1 + Constructs(st.body)
                [] OTHER -> 0)
             + Constructs(Tail(statements))

RECURSIVE ClassConstructs(_)
ClassConstructs(subroutine_decs) ==
    IF subroutine_decs = << >> THEN 0
    ELSE Constructs(Head(subroutine_decs).subroutine_body.statements)
         + ClassConstructs(Tail(subroutine_decs))

LabelOf(n) == label_name(class.class_name, n)

Position(seq, line) == CHOOSE i \in 1..Len(seq) : seq[i] = line

(* C4: every label of a class's output is `{ClassName}_{n}` and is defined *)
(* by exactly one `label` line in the whole class output, so no two        *)
(* subroutines share a label; each if or while takes two distinct labels,  *)
(* and its `if-goto` and `goto` target its own two labels.                 *)
C4_LabelsUnique ==
    pc.result \in {"running", "ok"} =>
        LET out == class_compiler.output
            n   == class_compiler.label_index
        IN  /\ n = 2 * ClassConstructs(class.subroutine_decs)
            /\ \A l \in 0..(n - 1) : Occurrences(out, "label " \o LabelOf(l)) = 1
            /\ \A l \in n..(n + 1) :
                  /\ Occurrences(out, "label " \o LabelOf(l)) = 0
                  /\ Occurrences(out, "    goto " \o LabelOf(l)) = 0
                  /\ Occurrences(out, "    if-goto " \o LabelOf(l)) = 0
            /\ \A k \in 0..((n \div 2) - 1) :
                  /\ Occurrences(out, "    if-goto " \o LabelOf(2 * k + 1)) = 1
                  /\ Occurrences(out, "    goto " \o LabelOf(2 * k)) = 1
                  /\ Occurrences(out, "    if-goto " \o LabelOf(2 * k)) = 0
                  /\ Occurrences(out, "    goto " \o LabelOf(2 * k + 1)) = 0
                  /\ Position(out, "    if-goto " \o LabelOf(2 * k + 1))
                        < Position(out, "label " \o LabelOf(2 * k + 1))
                  /\ Position(out, "    if-goto " \o LabelOf(2 * k + 1))
                        < Position(out, "    goto " \o LabelOf(2 * k))

C4_Witness ==
    /\ pc.result = "ok"
    /\ Len(class.subroutine_decs) = 2
    /\ Constructs(class.subroutine_decs[1].subroutine_body.statements) >= 2
    /\ Constructs(class.subroutine_decs[2].subroutine_body.statements) >= 1
    /\ class_compiler.label_index >= 6
    /\ Occurrences(class_compiler.output, "label Main_5") = 1

\* whether the i-th statement of the last subroutine is a `let` without index
PlainLet(i) ==
    /\ LastDec.subroutine_body.statements[i].tag = "LetStatement"
    /\ LastDec.subroutine_body.statements[i].expression_1 = << >>

(* C6: for a non-indexed `let x = expr;` whose x resolves, the code of the *)
(* statement is the code of expr followed by exactly one                   *)
(* `pop <segment> <index>` for the location of x, which is its last line.  *)
(* Checked for every top-level let of the subroutine compiled last.        *)
C6_LetEndsWithOnePop ==
    Compiled =>
        \A i \in 1..Len(LastDec.subroutine_body.statements) :
            PlainLet(i) =>
                LET st   == LastDec.subroutine_body.statements[i]
                    code == SubSeq(OutputUpTo(i), Len(OutputUpTo(i - 1)) + 1,
                                   Len(OutputUpTo(i)))
                    pop  == "    pop " \o SpecLocation(st.var_name)
                IN  /\ SpecSegment(st.var_name) # "none"
                    /\ code = ExprCode(st.expression_2) \o << pop >>
                    /\ OutputUpTo(i)
                          = SubSeq(subroutine_compiler.output, 1, Len(OutputUpTo(i)))

C6_Witness ==
    /\ Compiled
    /\ Len(LastDec.subroutine_body.statements) >= 1
    /\ PlainLet(1)
    /\ Len(ExprCode(LastDec.subroutine_body.statements[1].expression_2)) >= 3
    /\ Last(OutputUpTo(1)) = "    pop local 0"


(* C5: `class Main { function void main() { do Output.printInt(1);         *)
(* return; } }` compiles to exactly the six lines `function Main.main 0`,  *)
(* `push constant 1`, `call Output.printInt 1`, `pop temp 0`,              *)
(* `push constant 0`, `return`, and nothing else.  As stated, with the     *)
(* lines bare:                                                             *)
C5_SixBareLines ==
    (input.base = 1 /\ input.mutation = "none") =>
        /\ pc.result # "panic"
        /\ pc.result = "compiled" =>
              instructions = << "function Main.main 0", "push constant 1",
                                "call Output.printInt 1", "pop temp 0",
                                "push constant 0", "return" >>

(* C5 as the code has it: the same six instructions and nothing else, the  *)
(* five lines of the body each indented by four spaces.                    *)
C5_SixLinesIndented ==
    (input.base = 1 /\ input.mutation = "none") =>
        /\ pc.result # "panic"
        /\ pc.result = "compiled" =>
              instructions = << "function Main.main 0", "    push constant 1",
                                "    call Output.printInt 1", "    pop temp 0",
                                "    push constant 0", "    return" >>

C5_Witness ==
    /\ input.base = 1
    /\ input.mutation = "none"
    /\ pc.result = "compiled"
    /\ Len(nodes) = 1
    /\ Len(instructions) = 6

\* the inputs the statement of C8 names: the `class` keyword or the opening
\* `{` or the final `}` missing, or the stream ending inside a production
Invalid(in) ==
    \/ in.mutation = "truncate"
    \/ in.mutation = "drop" /\ in.at \in {1, 3, Len(Programs[in.base]) - 1}

(* C8: on the first structurally invalid production the parser yields an   *)
(* error result, never a Class, a silent end of the iteration or a panic.  *)
(* Stated of the first `next()` of the parser on an invalid unit; the code *)
(* never yields an error.                                                  *)
C8_ErrorOnInvalid ==
    (Invalid(input) /\ pc.i = 1) => parser.res = "err"

\* a token no statement can lose and stay well formed
Structural(token) ==
    \/ token.type = "Keyword" /\ token.value \notin KeywordConstants
    \/ token.type = "Symbol" /\ token.value \notin {"-", "~"}

\* a unit whose last subroutine body holds a malformed statement or expression
MalformedBody(in) ==
    /\ in.mutation = "drop"
    /\ in.at \in StatementsRange(in.base)
    /\ Structural(Programs[in.base][in.at])

(* C9: a malformed statement or expression in a subroutine body aborts the *)
(* parsing of the class: no Class holding only the declarations parsed     *)
(* before it is returned by the parser, and none is compiled.  The code    *)
(* returns such a Class and compiles it.                                   *)
C9_NoPartialClass ==
    MalformedBody(input) =>
        /\ nodes = << >>
        /\ pc.result \notin {"asserted", "compiled"}
        /\ instructions = << >>

(* C7: parse_expression keeps at most one (operator, term) pair after the  *)
(* head term: on `a + b + c` it takes exactly `a + b`, returns Ok with one *)
(* pair and leaves `+ c` for the enclosing construct.  Stated for every    *)
(* token list that starts  name op name op.                                *)
C7_AtMostOnePair ==
    expr.state = "done" =>
        /\ expr.p.res = "ok" => Len(top(expr.p, 0).terms) <= 1
        /\ (/\ Len(expr.p.tokens) >= 5
            /\ expr.p.tokens[1].type = "Identifier"
            /\ expr.p.tokens[2].value \in {"+", "-"}
            /\ expr.p.tokens[3].type = "Identifier"
            /\ expr.p.tokens[4].value \in {"+", "-"}) =>
              /\ expr.p.res = "ok"
              /\ expr.p.pos = 4
              /\ expr.p.index = 0
              /\ front(expr.p) = expr.p.tokens[4]
              /\ expr.p.stack = << Expr2(Var(expr.p.tokens[1].value),
                                         OpOf(expr.p.tokens[2].value),
                                         Var(expr.p.tokens[3].value)) >>

C7_Witness ==
    /\ expr.state = "done"
    /\ expr.p.tokens = << ID("a"), SY("+"), ID("b"), SY("+"), ID("c"), EOF >>
    /\ expr.p.res = "ok"
    /\ expr.p.stack = << Expr2(Var("a"), "Plus", Var("b")) >>
    /\ SubSeq(expr.p.tokens, expr.p.pos, 5) = << SY("+"), ID("c") >>

(* C11: the parser yields exactly one Class per compilation unit: when a   *)
(* second class declaration follows the first, only the first class is     *)
(* parsed and no token after the closing brace of the first class is       *)
(* consumed.  Stated of the unit `class Main {..} class Other {..}` under  *)
(* the `collect` of handle_file; the second `next()` parses class Other.   *)
C11_OneClassPerUnit ==
    (input.base = 4 /\ input.mutation = "none") =>
        /\ Len(nodes) <= 1
        /\ parser.pos <= Len(First4) + 1

\* a subroutine that compiles without error, put after the failing one
Follower == SubroutineDec("Function", "after", << >>, << >>, << Return >>)

\* the class of the state with the last subroutine left out
ClassBeforeLast ==
    [class EXCEPT !.subroutine_decs = SubSeq(@, 1, Len(@) - 1)]

(* C12: when a statement of a class fails to compile (a let target or a    *)
(* variable term found in none of the four tables), the error is the       *)
(* result for that class and no instruction of the class is emitted from   *)
(* the failure point on, also not for a subroutine after the failing one.  *)
C12_ErrorAbortsClass ==
    pc.result = "err" =>
        /\ subroutine_compiler.res = "err"
        /\ class_compiler.output = class_compiler_compile(ClassBeforeLast).cc.output
        /\ class_compiler_compile(class).res = "err"
        /\ class_compiler_compile([class EXCEPT !.subroutine_decs = Append(@, Follower)])
             = class_compiler_compile(class)
        /\ compile_class([output |-> << >>, res |-> "ok"], class_compiler_compile(class))
             = [output |-> << >>, res |-> "err"]
        /\ ~ ENABLED Next

C12_Witness ==
    /\ pc.result = "err"
    /\ Len(class.subroutine_decs) = 2
    /\ class_compiler.output # << >>
    /\ subroutine_compiler.output # << >>

(* C13: when a directory is compiled, a failure in one .jack file is       *)
(* isolated to that file: every other .jack file of the directory is still *)
(* compiled and its .vm output written.  Stated of main once it has ended. *)
C13_FailureIsolated ==
    dir.result \in {"ok", "err", "panic"} =>
        \A k \in 1..Len(dir.entries) :
            (dir.entries[k].jack /\ handle_file(dir.entries[k]).res = "ok")
                => k \in dir.written

\* the lines the i-th top-level statement of the last subroutine adds
StatementCode(i) ==
    SubSeq(OutputUpTo(i), Len(OutputUpTo(i - 1)) + 1, Len(OutputUpTo(i)))

\* the code of the expressions of a list, one after the other
RECURSIVE ArgsCode(_)
ArgsCode(expressions) ==
    IF expressions = << >> THEN << >>
    ELSE ExprCode(Head(expressions)) \o ArgsCode(Tail(expressions))

\* whether the i-th statement of the last subroutine is a `do` of a call of
\* the given form ("Call" or "ClassCall")
IsDo(i, tag) ==
    /\ LastDec.subroutine_body.statements[i].tag = "DoStatement"
    /\ LastDec.subroutine_body.statements[i].subroutine_call.tag = tag

\* the lines of a `do` statement without the `pop temp 0` that ends it
CallCode(i) == SubSeq(StatementCode(i), 1, Len(StatementCode(i)) - 1)

(* C14: an unqualified call `name(e1..en)` emits `push pointer 0`, then    *)
(* the code of e1..en in order, then `call <CurrentClass>.name <n+1>`, in  *)
(* a constructor, a function and a method alike.  Checked for every        *)
(* top-level `do name(..)` of the subroutine compiled last.                *)
C14_UnqualifiedCall ==
    Compiled =>
        \A i \in 1..Len(LastDec.subroutine_body.statements) :
            IsDo(i, "Call") =>
                LET call == LastDec.subroutine_body.statements[i].subroutine_call
                IN  CallCode(i)
                      = << "    push pointer 0" >>
                        \o ArgsCode(call.expression_list)
                        \o << "    call " \o class.class_name \o "."
                                \o call.subroutine_name \o " "
                                \o ToStr(Len(call.expression_list) + 1) >>

C14_Witness ==
    /\ Compiled
    /\ LastDec.subroutine_dec_type = "Function"
    /\ IsDo(1, "Call")
    /\ StatementCode(1) = << "    push pointer 0", "    push argument 0",
                             "    push constant 2", "    call Main.f 3",
                             "    pop temp 0" >>

\* the declared type the lookup order of the specification gives a name
SpecType(n) ==
    CASE SpecSegment(n) = "this"     -> FieldTable[n].type
      [] SpecSegment(n) = "local"    -> VarTable[n].type
      [] SpecSegment(n) = "argument" -> ArgTable[n].type
      [] SpecSegment(n) = "static"   -> StaticTable[n].type
      [] OTHER -> ReturnVoid

\* the result of compiling the last subroutine with only its first n statements
ResultUpTo(n) ==
    subroutine_compile(
        [class_compiler EXCEPT !.output = << >>],
        [LastDec EXCEPT !.subroutine_body.statements = SubSeq(@, 1, n)]).res

\* every variable of the argument expressions of the model's calls resolves
RECURSIVE ArgsResolve(_)
ArgsResolve(expressions) ==
    IF expressions = << >> THEN TRUE
    ELSE /\ Head(expressions).term.tag = "VarName"
            => SpecSegment(Head(expressions).term.var_name) # "none"
         /\ ArgsResolve(Tail(expressions))

(* C15: a qualified call `x.name(e1..en)`: when x resolves through         *)
(* search_var to a variable whose declared type is a class T, the code is  *)
(* `push <segment> <index>` of x, the code of e1..en and                   *)
(* `call T.name <n+1>`; when x is in none of the four tables, the code is  *)
(* only that of e1..en and `call x.name <n>`, with no receiver pushed and  *)
(* no error.  Checked for `do x.name(..)` as the first statement of the    *)
(* subroutine compiled last.                                               *)
C15_QualifiedCall ==
    (Len(class.subroutine_decs) > 0 /\ IsDo(1, "ClassCall")) =>
        LET call == LastDec.subroutine_body.statements[1].subroutine_call
            x    == call.class_or_var_name
            n    == Len(call.expression_list)
        IN  /\ (SpecSegment(x) # "none" /\ SpecType(x).type = "Class"
                    /\ ResultUpTo(1) = "ok") =>
                  CallCode(1)
                    = << "    push " \o SpecLocation(x) >>
                      \o ArgsCode(call.expression_list)
                      \o << "    call " \o SpecType(x).name \o "."
                              \o call.subroutine_name \o " " \o ToStr(n + 1) >>
            /\ (SpecSegment(x) = "none" /\ ArgsResolve(call.expression_list)) =>
                  /\ ResultUpTo(1) = "ok"
                  /\ CallCode(1)
                       = ArgsCode(call.expression_list)
                         \o << "    call " \o x \o "." \o call.subroutine_name
                                 \o " " \o ToStr(n) >>

\* a receiver of class type in the argument segment, and a class name
C15_Witness ==
    /\ Compiled
    /\ IsDo(1, "ClassCall")
    /\ StatementCode(1) = << "    push argument 2", "    push argument 1",
                             "    call Foo.g 2", "    pop temp 0" >>
    /\ Len(class.subroutine_decs) = 2
    /\ class.subroutine_decs[1].subroutine_body.statements[1]
         = Do(ClassCall("w", "g", << Expr1(IntC(1)), X >>))
    /\ class_compiler.output[2] = "    push constant 1"
    /\ class_compiler.output[4] = "    call w.g 2"

-----------------------------------------------------------------------------
(* The VM instructions of an array assignment, run on a small machine      *)

Segments == {"local", "argument", "this", "static"}

\* the machine before the statement: every variable cell holds its own
\* value, every memory cell its own content, and the stack is empty
Cell(segment, index) ==
    (CASE segment = "local" -> 10 [] segment = "argument" -> 20
       [] segment = "this" -> 30 [] segment = "static" -> 40) + index

Machine0 ==
    [stack |-> << >>, temp0 |-> 0, pointer1 |-> 0, stuck |-> FALSE,
     cells |-> [o \in Segments \X (0..3) |-> Cell(o[1], o[2])],
     ram |-> [a \in 0..99 |-> 100 + a]]

Pushed(m, v) == [m EXCEPT !.stack = Append(@, v)]
Popped(m) == [m EXCEPT !.stack = SubSeq(@, 1, Len(@) - 1)]

Operands == ({"constant"} \cup Segments) \X (0..3)

\* a `push` of a constant or of a variable cell
ExecPush(m, line) ==
    LET found == { o \in Operands : line = "    push " \o o[1] \o " " \o ToStr(o[2]) }
    IN  IF found = {} THEN [m EXCEPT !.stuck = TRUE]
        ELSE LET o == CHOOSE o \in found : TRUE
             IN  Pushed(m, IF o[1] = "constant" THEN o[2] ELSE m.cells[o])

Exec(m, line) ==
    IF m.stuck THEN m
    ELSE CASE line = "    add" ->
                Pushed(Popped(Popped(m)), m.stack[Len(m.stack) - 1] + Last(m.stack))
           [] line = "    pop temp 0" -> [Popped(m) EXCEPT !.temp0 = Last(m.stack)]
           [] line = "    push temp 0" -> Pushed(m, m.temp0)
           [] line = "    pop pointer 1" -> [Popped(m) EXCEPT !.pointer1 = Last(m.stack)]
           [] line = "    push that 0" -> Pushed(m, m.ram[m.pointer1])
           [] line = "    pop that 0" ->
                [Popped(m) EXCEPT !.ram[m.pointer1] = Last(m.stack)]
           [] OTHER -> ExecPush(m, line)

RECURSIVE Run(_, _)
Run(m, code) == IF code = << >> THEN m ELSE Run(Exec(m, Head(code)), Tail(code))

\* the value of a term and of an expression of the source on Machine0
RECURSIVE ValueOf(_)
TermValue(t) ==
    CASE t.tag = "IntegerConstant" -> t.int
      [] t.tag = "VarName" -> Cell(SpecSegment(t.var_name), SpecIndex(t.var_name))
      [] t.tag = "VarNameExpression" ->
            Machine0.ram[Cell(SpecSegment(t.var_name), SpecIndex(t.var_name))
                            + ValueOf(t.expression)]

ValueOf(e) ==
    IF e.terms = << >> THEN TermValue(e.term)
    ELSE TermValue(e.term) + TermValue(e.terms[1][2])

\* whether the i-th statement of the last subroutine is `let a[i] = v`
IndexedLet(i) ==
    /\ LastDec.subroutine_body.statements[i].tag = "LetStatement"
    /\ LastDec.subroutine_body.statements[i].expression_1 # << >>

(* C16: for `let a[i] = v` the code is the code of i, the push of a,       *)
(* `add`, the code of v, `pop temp 0`, `pop pointer 1`, `push temp 0`,     *)
(* `pop that 0`: the address is computed before v is evaluated and bound   *)
(* to pointer 1 after it, so that the cell written is a+i, and only that   *)
(* cell, also when v holds an array access, which rebinds pointer 1.       *)
(* Checked for `let a[i] = v` as first statement of the subroutine         *)
(* compiled last, and by running its code on Machine0.                     *)
C16_ArrayStore ==
    (Compiled /\ IndexedLet(1)) =>
        LET st == LastDec.subroutine_body.statements[1]
            a  == Cell(SpecSegment(st.var_name), SpecIndex(st.var_name))
            m  == Run(Machine0, StatementCode(1))
        IN  /\ StatementCode(1)
                 = ExprCode(st.expression_1[1])
                   \o << "    push " \o SpecLocation(st.var_name), "    add" >>
                   \o ExprCode(st.expression_2)
                   \o << "    pop temp 0", "    pop pointer 1",
                         "    push temp 0", "    pop that 0" >>
            /\ ~ m.stuck
            /\ m.stack = << >>
            /\ m.ram = [Machine0.ram EXCEPT ![a + ValueOf(st.expression_1[1])]
                                               = ValueOf(st.expression_2)]

\* `let x[y] = y[2];` with x an argument and y a local
C16_Witness ==
    /\ Compiled
    /\ IndexedLet(1)
    /\ StatementCode(1) = << "    push local 0", "    push argument 0", "    add",
                             "    push constant 2", "    push local 0", "    add",
                             "    pop pointer 1", "    push that 0",
                             "    pop temp 0", "    pop pointer 1",
                             "    push temp 0", "    pop that 0" >>
    /\ Run(Machine0, StatementCode(1)).ram[30] = 112
    /\ Run(Machine0, StatementCode(1)).pointer1 = 30

-----------------------------------------------------------------------------
(* The order of the lines of if and while statements                       *)

\* the code of a let, do or return statement under the tables of the last
\* subroutine
SimpleCode(st) ==
    compile_statement([subroutine_compiler EXCEPT !.output = << >>, !.pad = "One"],
                      st).output

\* the lines the statements are to give when the label counter is at n: an
\* if takes the labels n (its end) and n+1 (its else part), a while the
\* labels n (its top) and n+1 (its exit)
RECURSIVE OrderedCode(_, _)
IfCode(st, n) ==
    ExprCode(st.condition)
    \o << "    not", "    if-goto " \o LabelOf(n + 1) >>
    \o OrderedCode(st.then_branch, n + 2)
    \o << "    goto " \o LabelOf(n), "label " \o LabelOf(n + 1) >>
    \o (IF st.else_branch = << >> THEN << >>
        ELSE OrderedCode(st.else_branch[1], n + 2 + 2 * Constructs(st.then_branch)))
    \o << "label " \o LabelOf(n) >>

WhileCode(st, n) ==
    << "label " \o LabelOf(n) >>
    \o ExprCode(st.condition)
    \o << "    not", "    if-goto " \o LabelOf(n + 1) >>
    \o OrderedCode(st.body, n + 2)
    \o << "    goto " \o LabelOf(n), "label " \o LabelOf(n + 1) >>

OrderedCode(statements, n) ==
    IF statements = << >> THEN << >>
    ELSE (CASE Head(statements).tag = "IfStatement" -> IfCode(Head(statements), n)
            [] Head(statements).tag = "WhileStatement" -> WhileCode(Head(statements), n)
            [] OTHER -> SimpleCode(Head(statements)))
         \o OrderedCode(Tail(statements), n + 2 * Constructs(<< Head(statements) >>))

\* how many statements with the tag the statements hold, at any depth
RECURSIVE Tagged(_, _)
Tagged(statements, tag) ==
    IF statements = << >> THEN 0
    ELSE LET st == Head(statements)
         IN  (IF st.tag = tag THEN 1 ELSE 0)
             + (CASE st.tag = "IfStatement" ->
                       Tagged(st.then_branch, tag)
                       + (IF st.else_branch = << >> THEN 0
                          ELSE Tagged(st.else_branch[1], tag))
                  [] st.tag = "WhileStatement" -> Tagged(st.body, tag)
                  [] OTHER -> 0)
             + Tagged(Tail(statements), tag)

\* the lines of the last subroutine after its prologue
BodyOutput ==
    SubSeq(subroutine_compiler.output, PrologueLen(LastDec.subroutine_dec_type) + 1,
           Len(subroutine_compiler.output))

\* the label counter when the last subroutine was entered
LabelsBefore ==
    class_compiler.label_index - 2 * Constructs(LastDec.subroutine_body.statements)

(* C17: for every if statement the lines come in the order: code of the    *)
(* condition, `not`, `if-goto ELSE`, code of the then branch, `goto END`,  *)
(* `label ELSE`, code of the else branch when there is one, `label END`,   *)
(* ELSE and END being the two fresh labels of the statement.  Checked on   *)
(* the whole body of every compiled subroutine that holds an if, nested    *)
(* ones included.                                                          *)
C17_IfOrder ==
    (Compiled /\ Tagged(LastDec.subroutine_body.statements, "IfStatement") > 0) =>
        BodyOutput = OrderedCode(LastDec.subroutine_body.statements, LabelsBefore)

\* an if with an else branch in the second subroutine of a class whose first
\* one took two labels
C17_Witness ==
    /\ Compiled
    /\ Len(class.subroutine_decs) = 2
    /\ LabelsBefore = 2
    /\ LastDec.subroutine_dec_type = "Method"
    /\ BodyOutput = << "    push argument 1", "    not", "    if-goto Main_3",
                       "    push constant 1", "    pop local 0", "    goto Main_2",
                       "label Main_3",
                       "    push constant 2", "    pop local 0",
                       "label Main_2",
                       "    push constant 0", "    return" >>

(* C18: for every while statement the lines come in the order:             *)
(* `label TOP`, code of the condition, `not`, `if-goto EXIT`, code of the  *)
(* body, `goto TOP`, `label EXIT`, TOP and EXIT being the two fresh labels *)
(* of the statement.  Checked on the whole body of every compiled          *)
(* subroutine that holds a while, nested ones included.                    *)
C18_WhileOrder ==
    (Compiled /\ Tagged(LastDec.subroutine_body.statements, "WhileStatement") > 0) =>
        BodyOutput = OrderedCode(LastDec.subroutine_body.statements, LabelsBefore)

\* while (x) { let x = x - 1; } in a function
C18_Witness ==
    /\ Compiled
    /\ LastDec.subroutine_dec_type = "Function"
    /\ LabelsBefore = 0
    /\ BodyOutput = << "label Main_0",
                       "    push argument 0", "    not", "    if-goto Main_1",
                       "    push argument 0", "    push constant 1", "    sub",
                       "    pop argument 0",
                       "    goto Main_0",
                       "label Main_1",
                       "    push constant 0", "    return" >>

\* the number of variable names over all `var` declarations of the last subroutine
TotalVarNames ==
    Cardinality({ p \in (1..Len(LastDec.subroutine_body.var_decs)) \X (1..3) :
                    p[2] <= Len(LastDec.subroutine_body.var_decs[p[1]].var_names) })

(* C19: the nLocals of the `function` header of a subroutine is the total  *)
(* number of variable names over all `var` declarations of its body, it is *)
(* written before any statement is compiled, and every `push local i` and  *)
(* `pop local i` of the subroutine has i < nLocals.  Checked on the output *)
(* of the subroutine compiled last, whether or not a statement failed.     *)
C19_LocalCount ==
    Len(class.subroutine_decs) > 0 =>
        LET out == subroutine_compiler.output
        IN  /\ Len(out) >= 1
            /\ out[1] = "function " \o class.class_name \o "."
                            \o LastDec.subroutine_name \o " " \o ToStr(TotalVarNames)
            /\ OutputUpTo(0)[1] = out[1]
            /\ \A k \in 1..Len(out) : \A i \in 0..9 :
                  (IsInstr(out[k], "push local " \o ToStr(i))
                      \/ IsInstr(out[k], "pop local " \o ToStr(i)))
                  => i < TotalVarNames

\* `var int y, x;` and `let x = y;` in a function of a class without fields
C19_Witness ==
    /\ Compiled
    /\ LastDec.subroutine_body.var_decs = << VarDec(TypeInt, <<"y", "x">>) >>
    /\ subroutine_compiler.output
         = << "function Main.g 2", "    push local 0", "    pop local 1",
              "    push constant 0", "    return" >>

\* the variable names the class variable declarations of a Class declare
DeclaredIn(node) ==
    UNION { { node.class_var_decs[d].var_names[k] :
                k \in 1..Len(node.class_var_decs[d].var_names) } :
            d \in 1..Len(node.class_var_decs) }

\* the names of the subroutines of a Class
SubroutinesOf(node) ==
    { node.subroutine_decs[d].subroutine_name : d \in 1..Len(node.subroutine_decs) }

(* C20: parse_class parses the class variable declarations before the      *)
(* subroutine declarations: once a subroutine declaration has been parsed, *)
(* a `static` or `field` declaration that follows is never added to        *)
(* class_var_decs, and the declarations from there on are not parsed as    *)
(* what they are.  Stated of the unit                                      *)
(* `class Main { field int x; function void f() {..} field int y;          *)
(* static int z; function void g() {..} }`, whole or with a token lost:    *)
(* no Class that holds f declares y or z, y is declared by no Class, and   *)
(* on the whole unit z and g are not members of class Main.                *)
C20_ClassVarsFirst ==
    input.base = 5 =>
        \A k \in 1..Len(nodes) :
            /\ "f" \in SubroutinesOf(nodes[k]) =>
                  DeclaredIn(nodes[k]) \cap {"y", "z"} = {}
            /\ input.mutation = "none" =>
                  /\ "y" \notin DeclaredIn(nodes[k])
                  /\ ("z" \in DeclaredIn(nodes[k]) \/ "g" \in SubroutinesOf(nodes[k]))
                        => nodes[k].class_name # "Main"
                  /\ k = 1 => /\ nodes[k].class_name = "Main"
                              /\ DeclaredIn(nodes[k]) = {"x"}
                              /\ SubroutinesOf(nodes[k]) = {"f"}

\* the whole unit collected: class Main with x and f, and the rest of the
\* tokens read as a class named y
C20_Witness ==
    /\ input.base = 5
    /\ input.mutation = "none"
    /\ pc.result = "collected"
    /\ Len(nodes) = 2
    /\ SubroutinesOf(nodes[1]) = {"f"}
    /\ nodes[2].class_name = "y"
    /\ DeclaredIn(nodes[2]) = {"z"}
    /\ SubroutinesOf(nodes[2]) = {"g"}

-----------------------------------------------------------------------------
(* The VM vocabulary of the translator stage                               *)

\* the largest index, constant or count that the inputs of the model lead to
MaxOperand == 12

VMSegments == {"argument", "local", "static", "constant", "this", "that", "pointer", "temp"}

VMCommands == {"add", "sub", "neg", "eq", "gt", "lt", "and", "or", "not"}

\* the names `Class.name` that functions and calls of the inputs can carry
VMFunctionNames ==
    { c \o "." \o n :
        c \in {"Main", "Foo", "Memory", "String", "Math", "Output", "w", "y"},
        n \in {"f", "g", "main", "run", "new", "call", "store", "alloc", "appendChar",
               "multiply", "divide", "printInt"} }

\* the labels of class Main
VMLabels == { "Main_" \o ToStr(n) : n \in 0..MaxOperand }

\* an operand a memory access may carry: any index, but a destination is never
\* a constant, pointer has the two indices 0 and 1 and temp the eight 0..7
VMAccess(op, segment, index) ==
    /\ op \in {"push", "pop"}
    /\ segment \in VMSegments
    /\ index \in 0..MaxOperand
    /\ op = "pop" => segment # "constant"
    /\ segment = "pointer" => index \in {0, 1}
    /\ segment = "temp" => index \in 0..7

\* the instructions of the vocabulary, single spaces between their tokens
VMVocabulary ==
    { op \o " " \o s \o " " \o ToStr(i) :
        <<op, s, i>> \in { t \in {"push", "pop"} \X VMSegments \X (0..MaxOperand) :
                              VMAccess(t[1], t[2], t[3]) } }
    \cup VMCommands
    \cup { k \o " " \o l : k \in {"label", "if-goto", "goto"}, l \in VMLabels }
    \cup { k \o " " \o f \o " " \o ToStr(n) :
             k \in {"function", "call"}, f \in VMFunctionNames, n \in 0..MaxOperand }
    \cup {"return"}

\* the `function` and `label` instructions
VMHeadersAndLabels ==
    { "label " \o l : l \in VMLabels }
    \cup { "function " \o f \o " " \o ToStr(n) : f \in VMFunctionNames, n \in 0..MaxOperand }

\* every line written so far, joined to the class's output or not
EmittedLines ==
    { class_compiler.output[k] : k \in 1..Len(class_compiler.output) }
    \cup { subroutine_compiler.output[k] : k \in 1..Len(subroutine_compiler.output) }

(* C21: every line the compiler emits is exactly one instruction of the VM *)
(* vocabulary, with single-space separators and no other characters.  As   *)
(* stated, the line being the bare instruction:                            *)
C21_BareInstructions == EmittedLines \subseteq VMVocabulary

(* C21 as the code has it: every emitted line is one instruction of the    *)
(* VM vocabulary, single spaces between its tokens, preceded by four       *)
(* spaces when it is a line of a subroutine body and by nothing when it is *)
(* a `function` or `label` line; no `pop constant`, no `pointer` index     *)
(* other than 0 or 1.                                                      *)
C21_IndentedInstructions ==
    EmittedLines \subseteq
        VMHeadersAndLabels \cup { "    " \o v : v \in VMVocabulary \ VMHeadersAndLabels }

\* a compiled method with a while over a call: function, label, push, pop,
\* call and arithmetic lines are all there
C21_Witness ==
    /\ Compiled
    /\ \E n \in 0..MaxOperand :
          /\ ("label Main_" \o ToStr(n)) \in EmittedLines
          /\ ("    if-goto Main_" \o ToStr(n + 1)) \in EmittedLines
    /\ "    pop pointer 0" \in EmittedLines
    /\ "    return" \in EmittedLines
    /\ \E l \in EmittedLines : \E f \in VMFunctionNames, n \in 0..MaxOperand :
          l = "    call " \o f \o " " \o ToStr(n)

-----------------------------------------------------------------------------
(* The assembler                                                           *)

\* the texts of a sequence of lexemes or of tokens
Texts(lexemes) == [k \in 1..Len(lexemes) |-> lexemes[k].text]
Lexemes(tokens) == [k \in 1..Len(tokens) |-> tokens[k].lexeme]

\* the number of nodes a follower of the comp adds: none when it is the end or
\* the jump of the same instruction, one when it is the next instruction
NodesOf(follower) ==
    IF follower = << >> \/ follower[1] = Char(";") THEN 0 ELSE 1

(* C22: the parser turns `dest=comp` into exactly one C-instruction whose  *)
(* comp field holds exactly the tokens of the comp mnemonic in order, for  *)
(* every comp of the Hack comp table and whatever follows the comp: the    *)
(* end marker, `;jump`, or the first token of the next instruction.        *)
C22_CompTokens ==
    \A d \in CompDests, c \in CompMnemonics, f \in Followers :
        (asm.stage = "parsed" /\ asm.source = << d, Char("=") >> \o c \o f) =>
            /\ Len(asm.nodes) = 1 + NodesOf(f)
            /\ asm.nodes[1].node = "C"
            /\ asm.nodes[1].dest.lexeme = d.text
            /\ Lexemes(asm.nodes[1].comp) = Texts(c)

\* the types the declarations give their names, in declaration order
RECURSIVE DeclaredTypes(_, _)
DeclaredTypes(class_var_decs, kind) ==
    IF class_var_decs = << >> THEN << >>
    ELSE (IF Head(class_var_decs).class_var_dec_kind = kind
          THEN [k \in 1..Len(Head(class_var_decs).var_names) |->
                   Head(class_var_decs).class_var_dec_type]
          ELSE << >>)
         \o DeclaredTypes(Tail(class_var_decs), kind)

LastPos(seq, n) == CHOOSE i \in 1..Len(seq) : seq[i] = n /\ \A j \in (i + 1)..Len(seq) : seq[j] # n

\* a kind-namespace in which every insert, a re-declaration included, is an
\* entry of its own: the k-th insert has index k - 1 and a name is looked up
\* as its latest insert
LastInsertWins(table, names, types) ==
    /\ DOMAIN table = {names[i] : i \in 1..Len(names)}
    /\ \A n \in DOMAIN table :
          /\ table[n].type = types[LastPos(names, n)]
          /\ table[n].index = LastPos(names, n) - 1
    /\ Cardinality(DOMAIN table_insert(table, "fresh", TypeInt)) = Len(names) + 1
    /\ table_insert(table, "fresh", TypeInt)["fresh"].index = Len(names)

(* C23: re-declaring a name within a kind-namespace is last-insert-wins: a *)
(* later get returns the type and index of the latest insertion, the       *)
(* re-declaration counts as a second entry (the count of that kind and the *)
(* next index handed out both advance by one), and the index first         *)
(* assigned to that name is never handed out again.  Stated of the field   *)
(* and static tables of the class compiler and of get_fields_cnt.          *)
C23_LastInsertWins ==
    /\ LastInsertWins(class_compiler.symbol_table.field_table, DeclaredFields,
                      DeclaredTypes(SubSeq(class.class_var_decs, 1, pc.i), "Field"))
    /\ LastInsertWins(class_compiler.symbol_table.static_table, DeclaredStatics,
                      DeclaredTypes(SubSeq(class.class_var_decs, 1, pc.i), "Static"))
    /\ get_fields_cnt(class_compiler.symbol_table) = Len(DeclaredFields)

\* the receiver of a top-level qualified call of the last compiled subroutine
\* resolves to a variable of type int, char or boolean
PrimitiveReceiver ==
    /\ Len(class.subroutine_decs) > 0
    /\ \E i \in 1..Len(LastDec.subroutine_body.statements) :
          /\ IsDo(i, "ClassCall")
          /\ LET name == LastDec.subroutine_body.statements[i].subroutine_call.class_or_var_name
             IN  /\ SpecSegment(name) # "none"
                 /\ SpecType(name).type \in {"Int", "Char", "Boolean"}

(* C24: a qualified call whose left-hand identifier resolves to a variable *)
(* of non-class type (int, char or boolean) is surfaced as an error result *)
(* for the compilation unit and emits no call instruction; it does not     *)
(* panic.                                                                  *)
C24_PrimitiveReceiverIsError ==
    PrimitiveReceiver =>
        /\ subroutine_compiler.res = "err"
        /\ pc.result = "err"
        /\ \A k \in 1..Len(subroutine_compiler.output) :
              \A f \in VMFunctionNames, n \in 0..MaxOperand :
                  ~IsInstr(subroutine_compiler.output[k], "call " \o f \o " " \o ToStr(n))

\* the token list starts with an identifier followed by the given symbols
StartsWith(values) ==
    /\ Len(expr.p.tokens) >= 2
    /\ expr.p.tokens[1].type = "Identifier"
    /\ expr.p.tokens[2].type = "Symbol"
    /\ expr.p.tokens[2].value \in values

(* C25: in parse_term an identifier followed by `[` is parsed as an        *)
(* array-element term, followed by `(` or `.` as a subroutine call, and    *)
(* otherwise as a bare variable reference; when the two-token lookahead of *)
(* parse_subroutine_call does not match, no token has been consumed and    *)
(* the peek cursor is reset, so the bare-variable path consumes exactly    *)
(* the identifier.  Stated of parse_term called on every token list that   *)
(* starts with an identifier.                                              *)
C25_TermDisambiguation ==
    (expr.state = "term" /\ expr.p.tokens[1].type = "Identifier") =>
        /\ (StartsWith({"["}) /\ expr.p.res = "ok") =>
              /\ top(expr.p, 0).tag = "VarNameExpression"
              /\ top(expr.p, 0).var_name = expr.p.tokens[1].value
        /\ (StartsWith({"(", "."}) /\ expr.p.res = "ok") =>
              top(expr.p, 0).tag = "SubroutineCall"
        /\ ~StartsWith({"[", "(", "."}) =>
              /\ expr.p.res = "ok"
              /\ expr.p.stack = << Var(expr.p.tokens[1].value) >>
              /\ expr.p.pos = 2
              /\ expr.p.index = 0

-----------------------------------------------------------------------------
(* Subroutines are compiled in isolation                                   *)

RECURSIVE VarNamesOf(_)
VarNamesOf(var_decs) ==
    IF var_decs = << >> THEN << >>
    ELSE Head(var_decs).var_names \o VarNamesOf(Tail(var_decs))

ArgNamesOf(subroutine_dec) ==
    (IF subroutine_dec.subroutine_dec_type = "Method" THEN << "this" >> ELSE << >>)
    \o [i \in 1..Len(subroutine_dec.parameter_list) |-> subroutine_dec.parameter_list[i][2]]

Distinct(names) == Cardinality({names[i] : i \in 1..Len(names)}) = Len(names)

\* the table holds the names of this list and no other, counted from 0
FreshTable(table, names) ==
    /\ DOMAIN table = {names[i] : i \in 1..Len(names)}
    /\ \A n \in DOMAIN table :
          /\ table[n].index <= LastPos(names, n) - 1
          /\ Distinct(names) => table[n].index = LastPos(names, n) - 1

\* sc_after is the subroutine compiler that compiled subroutine_dec for the
\* class compiler cc_before, cc_after the class compiler once the loop body
\* of ClassCompiler::compile has run
SubroutineIsolated(cc_before, sc_after, cc_after, subroutine_dec) ==
    /\ FreshTable(sc_after.symbol_table.argument_table, ArgNamesOf(subroutine_dec))
    /\ FreshTable(sc_after.symbol_table.var_table,
                  VarNamesOf(subroutine_dec.subroutine_body.var_decs))
    /\ sc_after.class_compiler =
          [cc_before EXCEPT !.label_index = sc_after.class_compiler.label_index]
    /\ sc_after.class_compiler.label_index >= cc_before.label_index
    /\ cc_after.symbol_table = cc_before.symbol_table
    /\ cc_after.label_index = sc_after.class_compiler.label_index

(* C26: the subroutines of a class are compiled in isolation.  Every step  *)
(* that compiles a subroutine ends with argument and var tables that hold  *)
(* exactly the names this subroutine declares (and `this` for a method),   *)
(* indexed from 0, whatever the subroutines before it declared; the        *)
(* subroutine compiler changes nothing of the class compiler but the label *)
(* counter, and the field and static tables are the same before and after. *)
C26_Isolation ==
    [][ Len(class'.subroutine_decs) = Len(class.subroutine_decs) + 1 =>
            SubroutineIsolated(class_compiler, subroutine_compiler', class_compiler',
                               class'.subroutine_decs[Len(class'.subroutine_decs)]) ]_vars

\* a `run` with labels, parameter x and local y was compiled first, then a
\* function g without parameters whose only local is x
C26_Witness ==
    /\ Len(class.subroutine_decs) = 2
    /\ class.subroutine_decs[1].subroutine_name = "run"
    /\ class.subroutine_decs[2].subroutine_name = "g"
    /\ class.class_var_decs # << >>
    /\ DOMAIN subroutine_compiler.symbol_table.argument_table = {}
    /\ DOMAIN subroutine_compiler.symbol_table.var_table = {"x"}
    /\ subroutine_compiler.symbol_table.var_table["x"].index = 0
    /\ class_compiler.label_index > 0
    /\ pc.result = "running"

-----------------------------------------------------------------------------
(* The two passes of the preprocessor                                      *)

\* the nodes the parser yields for the source of this run
RECURSIVE asm_collect(_, _)
asm_collect(r, collected) ==
    IF r.kind = "node" THEN asm_collect(asm_parse(r.p), Append(collected, r.node))
    ELSE collected

ParsedNodes ==
    asm_collect(asm_parse(asm_new_parser(scan(asm.source, << >>).tokens)), << >>)

IsInstruction(node) == node.node # "Label"

InstructionsBefore(parsed, i) ==
    Cardinality({ j \in 1..(i - 1) : IsInstruction(parsed[j]) })

\* the addresses of the labels of this name
LabelAddresses(parsed, name) ==
    { InstructionsBefore(parsed, i) :
        i \in { j \in 1..Len(parsed) :
                    parsed[j].node = "Label" /\ parsed[j].name.lexeme = name } }

PredefinedNames == { e[1] : e \in PredefinedSymbols }

\* the positions at which a variable (neither label nor predefined) is named
VariableAt(parsed, i) ==
    /\ is_symbol(parsed[i])
    /\ LabelAddresses(parsed, parsed[i].token.lexeme) = {}
    /\ parsed[i].token.lexeme \notin PredefinedNames

FirstUse(parsed, name) ==
    CHOOSE i \in 1..Len(parsed) :
        /\ VariableAt(parsed, i) /\ parsed[i].token.lexeme = name
        /\ \A j \in 1..(i - 1) : ~(VariableAt(parsed, j) /\ parsed[j].token.lexeme = name)

\* how many distinct variables are first named before this one
VariablesBefore(parsed, name) ==
    Cardinality({ parsed[j].token.lexeme :
                    j \in { k \in 1..(FirstUse(parsed, name) - 1) : VariableAt(parsed, k) } })

Resolves(parsed, name, value) ==
    IF LabelAddresses(parsed, name) # {} THEN value \in LabelAddresses(parsed, name)
    ELSE IF name \in PredefinedNames
         THEN <<name, value>> \in PredefinedSymbols
         ELSE value = 16 + VariablesBefore(parsed, name)

TwoPasses(parsed, kept, replaced) ==
    /\ Len(replaced) = Len(kept)
    /\ \A k \in 1..Len(kept) :
          IF is_symbol(kept[k])
          THEN /\ replaced[k].node = "A"
               /\ replaced[k].token.token_type = "NUMBER"
               /\ Resolves(parsed, kept[k].token.lexeme, replaced[k].token.number)
          ELSE replaced[k] = kept[k]

(* C27: the preprocessor resolves symbols in two passes.  Once the symbols *)
(* are replaced, the nodes are the parsed instructions without the labels; *)
(* an A-instruction naming a label, also one defined after its use, holds  *)
(* the number of instructions that precede the label; every other symbol   *)
(* that is not predefined holds 16, 17, ... in the order of first          *)
(* appearance, one address per distinct name; no A-instruction holds a     *)
(* symbol any more, and all other instructions are unchanged.              *)
C27_TwoPasses ==
    asm.stage = "replaced" =>
        TwoPasses(ParsedNodes, SelectSeq(ParsedNodes, IsInstruction), asm.nodes)

\* `@END`, `@i`, `(END)`: END is used before it is defined and before the
\* first variable
C27_Witness ==
    /\ asm.stage = "replaced"
    /\ asm.source = << Char("@"), Word("END"), Char("@"), Word("i"),
                       Char("("), Word("END"), Char(")") >>
    /\ Len(asm.nodes) = 2
    /\ asm.nodes[1].token.number = 2
    /\ asm.nodes[2].token.number = 16

(* C28: the assertion of assemble_instruction holds for every program the  *)
(* scanner, the parser and the preprocessor accept: the value of every     *)
(* A-instruction that reaches the assembler is below 32768.                *)
C28_FifteenBits ==
    asm.stage = "replaced" =>
        \A k \in 1..Len(asm.nodes) :
            asm.nodes[k].node = "A" => asm.nodes[k].token.number < 32768

-----------------------------------------------------------------------------
(* Compiler::compile called again                                          *)

\* the instructions of the classes, one class after the other
RECURSIVE InstructionsOfClasses(_)
InstructionsOfClasses(classes) ==
    IF classes = << >> THEN << >>
    ELSE class_compiler_compile(Head(classes)).cc.output
         \o InstructionsOfClasses(Tail(classes))

RECURSIVE Repeated(_, _)
Repeated(list, times) ==
    IF times = 0 THEN << >> ELSE list \o Repeated(list, times - 1)

(* C29: Compiler::compile accumulates into the retained output.  After the *)
(* first call the returned list is the instructions of all classes in      *)
(* order, and after the k-th call on the same Compiler it is that list k   *)
(* times over: the second call returns the first list followed by itself.  *)
C29_Accumulates ==
    (compiler.res = "ok" /\ compiler.calls >= 1) =>
        /\ instructions = Repeated(InstructionsOfClasses(compiler.nodes), compiler.calls)
        /\ compiler.output = instructions

\* two different classes with a subroutine each, compiled twice
C29_Witness ==
    /\ compiler.res = "ok"
    /\ compiler.calls = 2
    /\ Len(compiler.nodes) = 2
    /\ compiler.nodes[1].class_name # compiler.nodes[2].class_name
    /\ compiler.nodes[1].subroutine_decs # << >>
    /\ compiler.nodes[2].subroutine_decs # << >>
    /\ Len(instructions) >= 4
    /\ instructions # InstructionsOfClasses(compiler.nodes)
    /\ SubSeq(instructions, 1, Len(instructions) \div 2)
          = SubSeq(instructions, Len(instructions) \div 2 + 1, Len(instructions))

-----------------------------------------------------------------------------
(* Collecting the parser terminates                                        *)

\* the parser of this run with k - 1 tokens consumed
ParserAt(k) == [new_parser(parser.tokens) EXCEPT !.pos = k]

\* a production that yields a value has consumed a token
Consumed(q, k) == q.res = "ok" => q.pos > k

\* the bodies of the parser's loops, entered at position k
LoopBodiesConsume(k) ==
    /\ Consumed(parse_class_var_dec(ParserAt(k)), k)
    /\ Consumed(parse_subroutine_dec(ParserAt(k)), k)
    /\ Consumed(parse_var_dec(ParserAt(k)), k)
    /\ Consumed(parse_type(ParserAt(k)), k)
    /\ Consumed(parse_identifier(ParserAt(k)), k)
    /\ Consumed(parse_statement(ParserAt(k)), k)
    /\ Consumed(parse_expression(ParserAt(k)), k)
    /\ Consumed(parse_unary_op(ParserAt(k)), k)

(* C30: collecting the parser over a finite token list terminates.  Every  *)
(* call of parse either ends the iteration (None, or a panic) or has       *)
(* consumed at least one token; the body of every loop of the parser,      *)
(* entered at any position of the token list, consumes at least one token  *)
(* when it yields the value that lets the loop go on; and the collecting   *)
(* comes to its end.                                                       *)
C30_Terminates ==
    /\ [](pc.i = 0 => \A k \in 1..(Len(parser.tokens) + 1) : LoopBodiesConsume(k))
    /\ [][ pc'.i = pc.i + 1 => (parser'.res # "ok" \/ parser'.pos > parser.pos) ]_vars
    /\ <>(pc.result # "parsing")

\* the parser yielded two classes and then None
C30_Witness ==
    /\ pc.result = "collected"
    /\ pc.i = 3
    /\ Len(nodes) = 2
    /\ parser.pos > 10

=============================================================================
